---- MODULE Spec2Model ----
(***************************************************************************)
(* Double-buffered external-surface registry (SurfaceRegistry), its        *)
(* reference-counted handle (WgpuSurfaceHandle) and the compositor's       *)
(* per-frame read of the surfaces (WgpuRenderer::draw).                    *)
(***************************************************************************)
EXTENDS Integers, Sequences, FiniteSets, TLC

\* ---------------------------------------------------------------- bounds
\* create_double_buffer runs at most MaxBuffers times (by create or by a
\* replacing resize), so at most MaxBuffers ids are issued
MaxBuffers == 2

Ids == 1..MaxBuffers
\* the (width, height) requested by create and resize: zero (clamped to one),
\* the clamped size itself, and a size that differs from it in one dimension
Sizes == {<<0, 0>>, <<1, 1>>, <<1, 2>>}
Formats == {"Rgba8UnormSrgb"}
\* the main thread (event loop, layout, compositor) and a producer thread
Threads == {"main", "t1"}
MainThread == "main"

\* Option<T>: None is the empty tuple, Some(x) the one-element tuple
None == <<>>
Some(x) == <<x>>

Max(a, b) == IF a >= b THEN a ELSE b

\* ------------------------------------------------------------ variables
VARIABLES
    surfaces,            \* SurfaceRegistry.surfaces: SurfaceId -> DoubleBuffer
    next_id,             \* SurfaceRegistry.next_id
    device,              \* number of textures the wgpu device has created
    handles,             \* live WgpuSurfaceHandleInner: id -> [refs, size]
    winit,               \* do the handles of the window hold its winit window?
    ACTIVE_CONTEXT,      \* platform.rs: the thread-local Cell<Option<(event loop,
                         \* app state)>> of the main thread
    windows,             \* platform.rs: AppState.windows, window id -> inner size of
                         \* its winit window
    redraw_requested,    \* winit: a RedrawRequested event is due for the window
    frames,              \* history, per id: presents whose swap is done, and how
                         \* many were done when draw last read front_index
    pc,                  \* position of each thread inside its current call
    held,                \* the handle clone each thread owns (0: none)
    loc,                 \* locals of each thread's current call
    comp,                \* the compositor inside WgpuRenderer::draw
    surface_bind_groups, \* WgpuRenderer.surface_bind_groups: id -> two views
    lastOp,              \* history: the call made by the last step, if it was
                         \* resize, lock_and_get_back_with_size or a call of the
                         \* atlas: argument, entry before the call, result
    returned,            \* history: ids returned by create, in order of return
    episode,             \* history, per id, since creation / the last clear: first
                         \* result and false results of set_present_pending, wakes
                         \* sent by present (request_redraw, present trigger); a
                         \* false result needs a fresh flag, so the counts stay
                         \* below the number of double buffers created
    swaps,               \* history: parity of the swap_buffers calls completed since
                         \* the entry was built (by create or a replacing resize)
    atlas                \* WgpuAtlas: the WgpuAtlasState behind its mutex

vars == <<surfaces, next_id, device, handles, winit, ACTIVE_CONTEXT, windows,
          redraw_requested, frames, pc, held, loc, comp, surface_bind_groups, lastOp,
          returned, episode, swaps, atlas>>

\* ------------------------------------------------- SurfaceRegistry (pure)
\* map insert / remove on the HashMap
MapInsert(m, k, v) == [i \in DOMAIN m \cup {k} |-> IF i = k THEN v ELSE m[i]]
MapRemove(m, k) == [i \in DOMAIN m \ {k} |-> m[i]]

\* mutant: the increment of the counter is lost
fetch_add_lost(v) == v

\* next_id.fetch_add(1): the new value of the counter (the old one is returned)
fetch_add(v) == v + 1

\* device.create_texture: the k-th texture of the device, with its extent; a
\* view (create_view with the default descriptor) is identified with the
\* texture it views
create_texture(k, w, h) == [tex |-> k, w |-> w, h |-> h]

\* mutant: the stored dimensions are the requested ones, not the clamped ones
create_double_buffer_unclamped(n, width, height, format) ==
    LET w == Max(width, 1)
        h == Max(height, 1)
        tex0 == create_texture(n + 1, w, h)
        tex1 == create_texture(n + 2, w, h)
    IN [textures |-> <<tex0, tex1>>, views |-> <<tex0, tex1>>, front |-> 0,
        width |-> width, height |-> height, format |-> format,
        present_pending |-> FALSE]

\* mutant: both views are created from the first texture
create_double_buffer_one_view(n, width, height, format) ==
    LET w == Max(width, 1)
        h == Max(height, 1)
        tex0 == create_texture(n + 1, w, h)
        tex1 == create_texture(n + 2, w, h)
    IN [textures |-> <<tex0, tex1>>, views |-> <<tex0, tex0>>, front |-> 0,
        width |-> w, height |-> h, format |-> format,
        present_pending |-> FALSE]

\* n textures exist already; the two new ones are n+1 and n+2 (indices 0 and
\* 1 of the arrays are positions 1 and 2 of the tuples)
create_double_buffer(n, width, height, format) ==
    LET w == Max(width, 1)
        h == Max(height, 1)
        tex0 == create_texture(n + 1, w, h)
        tex1 == create_texture(n + 2, w, h)
    IN [textures |-> <<tex0, tex1>>, views |-> <<tex0, tex1>>, front |-> 0,
        width |-> w, height |-> h, format |-> format,
        present_pending |-> FALSE]

\* mutant: the flip is lost when front is already 1
swap_buffers_sticky(s, id) ==
    IF id \in DOMAIN s THEN [s EXCEPT ![id].front = 1] ELSE s

\* mutant: the swap also consumes the pending flag
swap_buffers_clears(s, id) ==
    IF id \in DOMAIN s
    THEN [s EXCEPT ![id].front = 1 - @, ![id].present_pending = FALSE]
    ELSE s

\* mutant: a swap is refused while a present is still pending
swap_buffers_unless_pending(s, id) ==
    IF id \in DOMAIN s /\ ~s[id].present_pending
    THEN [s EXCEPT ![id].front = 1 - @] ELSE s

swap_buffers(s, id) ==
    IF id \in DOMAIN s THEN [s EXCEPT ![id].front = 1 - @] ELSE s

\* does resize(id, width, height) replace the entry?
resize_replaces(s, id, width, height) ==
    /\ id \in DOMAIN s
    /\ ~(s[id].width = width /\ s[id].height = height)

\* mutant: the dimensions are updated and the buffers kept
resize_in_place(s, n, id, width, height) ==
    IF resize_replaces(s, id, width, height)
    THEN [s EXCEPT ![id].width = Max(width, 1), ![id].height = Max(height, 1)]
    ELSE s

\* mutant: no early return, the entry is always rebuilt
resize_always(s, n, id, width, height) ==
    IF id \in DOMAIN s
    THEN [s EXCEPT ![id] = create_double_buffer(n, width, height, s[id].format)]
    ELSE s

resize(s, n, id, width, height) ==
    IF resize_replaces(s, id, width, height)
    THEN [s EXCEPT ![id] = create_double_buffer(n, width, height, s[id].format)]
    ELSE s

front_view(s, id) ==
    IF id \in DOMAIN s THEN Some(s[id].views[s[id].front + 1]) ELSE None

back_view(s, id) ==
    IF id \in DOMAIN s THEN Some(s[id].views[(1 - s[id].front) + 1]) ELSE None

\* mutant: the view handed out is the front one
lock_and_get_back_with_size_front(s, id) ==
    IF id \in DOMAIN s
    THEN Some(<<s[id].views[s[id].front + 1], <<s[id].width, s[id].height>> >>)
    ELSE None

lock_and_get_back_with_size(s, id) ==
    IF id \in DOMAIN s
    THEN Some(<<s[id].views[(1 - s[id].front) + 1], <<s[id].width, s[id].height>> >>)
    ELSE None

front_index(s, id) ==
    IF id \in DOMAIN s THEN Some(s[id].front) ELSE None

view_at(s, id, idx) ==
    IF id \in DOMAIN s /\ idx \in {0, 1} THEN Some(s[id].views[idx + 1]) ELSE None

size(s, id) ==
    IF id \in DOMAIN s THEN Some(<<s[id].width, s[id].height>>) ELSE None

format(s, id) ==
    IF id \in DOMAIN s THEN Some(s[id].format) ELSE None

\* mutant: remove leaves the entry in the map
remove_keeps(s, id) == s

remove(s, id) == IF id \in DOMAIN s THEN MapRemove(s, id) ELSE s

\* the value set_present_pending returns (the flag before the swap(true))
set_present_pending_ret(s, id) ==
    IF id \in DOMAIN s THEN s[id].present_pending ELSE FALSE

set_present_pending(s, id) ==
    IF id \in DOMAIN s THEN [s EXCEPT ![id].present_pending = TRUE] ELSE s

is_present_pending(s, id) ==
    IF id \in DOMAIN s THEN s[id].present_pending ELSE FALSE

\* mutant: the flags of all surfaces are cleared
clear_present_pending_all(s, id) ==
    [j \in DOMAIN s |-> [s[j] EXCEPT !.present_pending = FALSE]]

clear_present_pending(s, id) ==
    IF id \in DOMAIN s THEN [s EXCEPT ![id].present_pending = FALSE] ELSE s

\* ------------------------------------------------------- WgpuAtlas (pure)
\* DEFAULT_ATLAS_SIZE (1024 x 1024 device pixels), in units of 512 pixels
DEFAULT_ATLAS_SIZE == 2

\* AtlasTextureKind, and the keys with their AtlasKey::texture_kind
Kinds == {"Monochrome", "Polychrome"}
Keys == {"m1", "m2", "p1"}
texture_kind(key) == IF key = "p1" THEN "Polychrome" ELSE "Monochrome"

\* required_limits.max_texture_dimension_2d of the device (2048 pixels), in
\* units of 512 pixels
max_texture_dimension_2d == 4

\* the sizes build yields, in units: a quarter of the default texture, all of
\* it, and a tile wider than any texture the device creates
TileSizes == {<<1, 1>>, <<2, 2>>, <<5, 1>>}

\* anyhow::Result
Errors == {"e1", "e2"}
Ok(x) == [ok |-> TRUE, val |-> x]
Err(e) == [ok |-> FALSE, val |-> e]

\* what the caller's build closure returns (the bytes are left out)
BuildResults ==
    {Err(e) : e \in Errors} \cup {Ok(None)} \cup {Ok(Some(sz)) : sz \in TileSizes}

\* AtlasTextureList::default: slots (Option<texture>) and the free slot indices
EmptyList == [textures |-> << >>, free_list |-> << >>]

\* WgpuAtlas::new
NewAtlas == [storage |-> [k \in Kinds |-> EmptyList], tiles_by_key |-> << >>,
             initializations |-> << >>, uploads |-> << >>]

\* Size::max: the larger of each component
SizeMax(a, b) == <<Max(a[1], b[1]), Max(a[2], b[2])>>

\* do two rectangles [min, size] share a point of their interiors?
Overlap(a, b) ==
    /\ a.min[1] < b.min[1] + b.size[1] /\ b.min[1] < a.min[1] + a.size[1]
    /\ a.min[2] < b.min[2] + b.size[2] /\ b.min[2] < a.min[2] + a.size[2]

\* the origins at which a rectangle of this size lies inside the texture and
\* clear of every rectangle its allocator has handed out
Feasible(tex, sz) ==
    {o \in (0..(tex.size[1] - sz[1])) \X (0..(tex.size[2] - sz[2])) :
        \A i \in DOMAIN tex.allocator :
            ~Overlap([min |-> o, size |-> sz], tex.allocator[i])}

\* the first of these origins, row by row (the allocator is deterministic)
Place(tex, sz) ==
    CHOOSE o \in Feasible(tex, sz) :
        \A q \in Feasible(tex, sz) : o[2] < q[2] \/ (o[2] = q[2] /\ o[1] <= q[1])

\* BucketedAtlasAllocator::allocate: the answers the allocator may give: the
\* free place, or None (it does not promise to use all the room left); a new
\* allocator that can hold the size places it
allocator_allocate(tex, sz) ==
    (IF Feasible(tex, sz) # {} THEN {Some(Place(tex, sz))} ELSE {})
        \cup (IF tex.allocator = << >> /\ Feasible(tex, sz) # {} THEN {} ELSE {None})

\* mutant: the tile is put at the origin of the texture, not at the place the
\* allocator chose
texture_allocate_at_origin(tex, sz, answer) ==
    IF answer = None THEN None
    ELSE Some([tile |-> [texture_id |-> tex.id, tile_id |-> Len(tex.allocator) + 1,
                         padding |-> 0,
                         bounds |-> [origin |-> <<0, 0>>, size |-> sz]],
               texture |-> [tex EXCEPT
                   !.allocator = Append(@, [min |-> answer[1], size |-> sz]),
                   !.live_atlas_keys = @ + 1]])

\* mutant: the allocation does not count as a live tile
texture_allocate_uncounted(tex, sz, answer) ==
    IF answer = None THEN None
    ELSE Some([tile |-> [texture_id |-> tex.id, tile_id |-> Len(tex.allocator) + 1,
                         padding |-> 0,
                         bounds |-> [origin |-> answer[1], size |-> sz]],
               texture |-> [tex EXCEPT
                   !.allocator = Append(@, [min |-> answer[1], size |-> sz])]])

\* WgpuAtlasTexture::allocate, given the allocator's answer: the tile and the
\* texture after the call
texture_allocate(tex, sz, answer) ==
    IF answer = None THEN None
    ELSE Some([tile |-> [texture_id |-> tex.id, tile_id |-> Len(tex.allocator) + 1,
                         padding |-> 0,
                         bounds |-> [origin |-> answer[1], size |-> sz]],
               texture |-> [tex EXCEPT
                   !.allocator = Append(@, [min |-> answer[1], size |-> sz]),
                   !.live_atlas_keys = @ + 1]])

\* mutant: the count is not lowered
decrement_ref_count_kept(tex) == tex

\* WgpuAtlasTexture::decrement_ref_count (saturating_sub)
decrement_ref_count(tex) == [tex EXCEPT !.live_atlas_keys = Max(@ - 1, 0)]

\* mutant: a texture counts as unreferenced whatever its count
is_unreferenced_always(tex) == TRUE

is_unreferenced(tex) == tex.live_atlas_keys = 0

\* the slots of a list that hold a texture, as indices from 0
Occupied(list) == {i \in 0..(Len(list.textures) - 1) : list.textures[i + 1] # None}

\* mutant: a new index is always appended
push_index_append(list) == Len(list.textures)

\* push_texture: the index free_list.pop() yields, else textures.len()
push_index(list) ==
    IF list.free_list # << >> THEN list.free_list[Len(list.free_list)]
    ELSE Len(list.textures)

\* R8Unorm for monochrome, Rgba8Unorm for polychrome
texture_format(kind) == IF kind = "Monochrome" THEN "R8Unorm" ELSE "Rgba8Unorm"

\* WgpuAtlasState::push_texture with n textures created by the device so far
push_texture(a, n, min_size, kind) ==
    LET sz == SizeMax(min_size, <<DEFAULT_ATLAS_SIZE, DEFAULT_ATLAS_SIZE>>)
        list == a.storage[kind]
        index == push_index(list)
        popped == list.free_list # << >>
        atlas_texture == [id |-> [kind |-> kind, index |-> index], size |-> sz,
                          allocator |-> << >>,
                          raw |-> create_texture(n + 1, sz[1], sz[2]),
                          format |-> texture_format(kind), live_atlas_keys |-> 0]
        textures == IF index < Len(list.textures)
                    THEN [list.textures EXCEPT ![index + 1] = Some(atlas_texture)]
                    ELSE Append(list.textures, Some(atlas_texture))
        free_list == IF popped THEN SubSeq(list.free_list, 1, Len(list.free_list) - 1)
                     ELSE list.free_list
    IN [a EXCEPT !.initializations = Append(@, atlas_texture.id),
                 !.storage[kind] = [textures |-> textures, free_list |-> free_list]]

\* the texture in slot index of a list (the slot is occupied)
TextureAt(list, index) == list.textures[index + 1][1]

\* a texture as push_texture would create it for this size, for the allocator
NewTexture(min_size) ==
    [size |-> SizeMax(min_size, <<DEFAULT_ATLAS_SIZE, DEFAULT_ATLAS_SIZE>>),
     allocator |-> << >>]

\* WgpuAtlasState::allocate scans the textures of the kind in reverse and
\* takes the first whose allocator places the tile; when all refuse it pushes
\* a texture. The outcomes: the slot that takes the tile (-1: a new texture)
\* with the answer of its allocator, and the slots find_map asked before it,
\* which all refused
AllocateChoices(a, sz, kind) ==
    LET list == a.storage[kind]
        refuses(i) == None \in allocator_allocate(TextureAt(list, i), sz)
        reached == {i \in Occupied(list) :
                       \A j \in Occupied(list) : j > i => refuses(j)}
    IN UNION {{[slot |-> i, at |-> ans,
                refused |-> {j \in Occupied(list) : j > i}] :
                  ans \in allocator_allocate(TextureAt(list, i), sz) \ {None}} :
              i \in reached}
       \cup (IF \A j \in Occupied(list) : refuses(j)
             THEN {[slot |-> -1, at |-> ans, refused |-> Occupied(list)] :
                      ans \in allocator_allocate(NewTexture(sz), sz)}
             ELSE {})

\* device.create_texture validates the size against the limits of the device;
\* no error scope or handler is installed, so a refused texture panics
device_accepts(sz) ==
    sz[1] <= max_texture_dimension_2d /\ sz[2] <= max_texture_dimension_2d

\* WgpuAtlasState::allocate for one of these outcomes: the atlas after it and
\* the tile; tile None is a panic: of create_texture in push_texture, before
\* anything is stored, or of unwrap() on the new texture's refusal
atlas_allocate(a, n, sz, kind, choice) ==
    LET pushed == push_texture(a, n, sz, kind)
        a1 == IF choice.slot = -1 THEN pushed ELSE a
        index == IF choice.slot = -1 THEN push_index(a.storage[kind]) ELSE choice.slot
        r == texture_allocate(TextureAt(a1.storage[kind], index), sz, choice.at)
    IN IF choice.slot = -1 /\ ~device_accepts(NewTexture(sz).size)
       THEN [atlas |-> a, tile |-> None]
       ELSE IF r = None THEN [atlas |-> a1, tile |-> None]
       ELSE [atlas |-> [a1 EXCEPT !.storage[kind].textures[index + 1] =
                                      Some(r[1].texture)],
             tile |-> Some(r[1].tile)]

\* mutant: the bytes are not queued
upload_texture_unqueued(a, texture_id, bounds) == a

\* WgpuAtlasState::upload_texture: the staging buffer is queued
upload_texture(a, texture_id, bounds) ==
    [a EXCEPT !.uploads = Append(@, [texture_id |-> texture_id, bounds |-> bounds])]

\* mutant: a failed build leaves an empty texture behind
atlas_get_or_insert_with_eager(a, n, key, build, choice) ==
    IF key \in DOMAIN a.tiles_by_key
    THEN [atlas |-> a, ret |-> Ok(Some(a.tiles_by_key[key])), built |-> FALSE]
    ELSE IF ~build.ok \/ build.val = None
    THEN [atlas |-> push_texture(a, n, <<1, 1>>, texture_kind(key)),
          ret |-> build, built |-> TRUE]
    ELSE LET al == atlas_allocate(a, n, build.val[1], texture_kind(key), choice)
         IN IF al.tile = None
            THEN [atlas |-> al.atlas, ret |-> Err("panic"), built |-> TRUE]
            ELSE LET tile == al.tile[1]
                     up == upload_texture(al.atlas, tile.texture_id, tile.bounds)
                 IN [atlas |-> [up EXCEPT !.tiles_by_key = MapInsert(@, key, tile)],
                     ret |-> Ok(Some(tile)), built |-> TRUE]

\* mutant: a hit allocates the tile again
atlas_get_or_insert_with_rebuild(a, n, key, build, choice) ==
    IF ~build.ok \/ build.val = None
    THEN [atlas |-> a, ret |-> build, built |-> TRUE]
    ELSE LET al == atlas_allocate(a, n, build.val[1], texture_kind(key), choice)
         IN IF al.tile = None
            THEN [atlas |-> al.atlas, ret |-> Err("panic"), built |-> TRUE]
            ELSE LET tile == al.tile[1]
                     up == upload_texture(al.atlas, tile.texture_id, tile.bounds)
                 IN [atlas |-> [up EXCEPT !.tiles_by_key = MapInsert(@, key, tile)],
                     ret |-> Ok(Some(tile)), built |-> TRUE]

\* WgpuAtlas::get_or_insert_with: the atlas after the call, the result, and
\* whether build was invoked
atlas_get_or_insert_with(a, n, key, build, choice) ==
    IF key \in DOMAIN a.tiles_by_key
    THEN [atlas |-> a, ret |-> Ok(Some(a.tiles_by_key[key])), built |-> FALSE]
    ELSE IF ~build.ok \/ build.val = None
    THEN [atlas |-> a, ret |-> build, built |-> TRUE]
    ELSE LET al == atlas_allocate(a, n, build.val[1], texture_kind(key), choice)
         IN IF al.tile = None
            THEN [atlas |-> al.atlas, ret |-> Err("panic"), built |-> TRUE]
            ELSE LET tile == al.tile[1]
                     up == upload_texture(al.atlas, tile.texture_id, tile.bounds)
                 IN [atlas |-> [up EXCEPT !.tiles_by_key = MapInsert(@, key, tile)],
                     ret |-> Ok(Some(tile)), built |-> TRUE]

\* mutant: a remove empties the stores of both kinds
atlas_remove_reset(a, key) ==
    [a EXCEPT !.tiles_by_key = << >>, !.storage = NewAtlas.storage]

\* mutant: the slot of a texture that still has live tiles is emptied too
atlas_remove_destroys(a, key) ==
    IF key \notin DOMAIN a.tiles_by_key THEN a
    ELSE LET id == a.tiles_by_key[key].texture_id
             a1 == [a EXCEPT !.tiles_by_key = MapRemove(@, key)]
             list == a1.storage[id.kind]
         IN IF id.index >= Len(list.textures) THEN a1
            ELSE IF list.textures[id.index + 1] = None THEN a1
            ELSE [a1 EXCEPT !.storage[id.kind].textures[id.index + 1] = None,
                            !.storage[id.kind].free_list = Append(@, id.index)]

\* mutant: the key is looked up, not taken out, and an absent key's kind list
\* loses its last texture
atlas_remove_absent(a, key) ==
    IF key \notin DOMAIN a.tiles_by_key
    THEN LET list == a.storage[texture_kind(key)]
         IN IF Occupied(list) = {} THEN a
            ELSE LET i == CHOOSE i \in Occupied(list) : \A j \in Occupied(list) : j <= i
                 IN [a EXCEPT !.storage[texture_kind(key)].textures[i + 1] = None,
                              !.storage[texture_kind(key)].free_list = Append(@, i)]
    ELSE a

\* mutant: the slot of a destroyed texture is not put on the free list
atlas_remove_unlisted(a, key) ==
    IF key \notin DOMAIN a.tiles_by_key THEN a
    ELSE LET id == a.tiles_by_key[key].texture_id
             a1 == [a EXCEPT !.tiles_by_key = MapRemove(@, key)]
             list == a1.storage[id.kind]
         IN IF id.index >= Len(list.textures) THEN a1
            ELSE IF list.textures[id.index + 1] = None THEN a1
            ELSE LET texture == decrement_ref_count(TextureAt(list, id.index))
                 IN IF is_unreferenced(texture)
                    THEN [a1 EXCEPT
                             !.storage[id.kind].textures[id.index + 1] = None]
                    ELSE [a1 EXCEPT
                             !.storage[id.kind].textures[id.index + 1] = Some(texture)]

\* WgpuAtlas::remove
atlas_remove(a, key) ==
    IF key \notin DOMAIN a.tiles_by_key THEN a
    ELSE LET id == a.tiles_by_key[key].texture_id
             a1 == [a EXCEPT !.tiles_by_key = MapRemove(@, key)]
             list == a1.storage[id.kind]
         IN IF id.index >= Len(list.textures) THEN a1
            ELSE IF list.textures[id.index + 1] = None THEN a1
            ELSE LET texture == decrement_ref_count(TextureAt(list, id.index))
                 IN IF is_unreferenced(texture)
                    THEN [a1 EXCEPT
                             !.storage[id.kind].textures[id.index + 1] = None,
                             !.storage[id.kind].free_list = Append(@, texture.id.index)]
                    ELSE [a1 EXCEPT
                             !.storage[id.kind].textures[id.index + 1] = Some(texture)]

\* does storage[texture_id] find a texture? (Index: textures[index].unwrap())
Resolves(a, id) ==
    /\ id.index < Len(a.storage[id.kind].textures)
    /\ a.storage[id.kind].textures[id.index + 1] # None

\* WgpuAtlas::get_texture_info: the view of storage[texture_id]; None stands
\* for the panic of the unwrap on an empty slot
get_texture_info(a, texture_id) ==
    IF Resolves(a, texture_id)
    THEN Some([raw_view |->
                  TextureAt(a.storage[texture_id.kind], texture_id.index).raw])
    ELSE None

\* WgpuAtlasState::flush: uploads.drain(..) with one copy_buffer_to_texture
\* per upload into the raw texture its id resolves to; an id that resolves to
\* no texture panics, and the drain still empties the queue
flush(a) ==
    LET bad == {i \in DOMAIN a.uploads : ~Resolves(a, a.uploads[i].texture_id)}
        last == IF bad = {} THEN Len(a.uploads)
                ELSE (CHOOSE i \in bad : \A j \in bad : i <= j) - 1
    IN [atlas |-> [a EXCEPT !.uploads = << >>],
        copies |-> [i \in 1..last |->
                       [upload |-> a.uploads[i],
                        raw |-> TextureAt(a.storage[a.uploads[i].texture_id.kind],
                                          a.uploads[i].texture_id.index).raw]],
        panicked |-> bad # {}]

\* ------------------------------------------------------------ initial state
NoLoc == [id |-> 0, n |-> 0, w |-> 0, h |-> 0, f |-> "", live |-> FALSE]
NoOp == [op |-> "none", id |-> 0, arg |-> None, before |-> None, ret |-> None]
NoEpisode == [falses |-> 0, first |-> "none", redraws |-> 0, triggers |-> 0]
CompIdle == [pc |-> "idle", scene |-> {}, cur |-> 0, idx |-> 0, seen |-> {},
             fronts |-> {}]

\* SurfaceRegistry::new, no handle, an idle compositor with an empty cache;
\* WgpuSurfaceHandle::new takes the winit window of the one window as an
\* Option, the same for every handle that window creates
Init ==
    /\ surfaces = << >>
    /\ next_id = 1
    /\ device = 0
    /\ handles = << >>
    /\ winit \in BOOLEAN
    /\ ACTIVE_CONTEXT = None
    /\ windows = << >>
    /\ redraw_requested = FALSE
    /\ frames = [i \in Ids |-> [presented |-> 0, read |-> 0]]
    /\ pc = [t \in Threads |-> "idle"]
    /\ held = [t \in Threads |-> 0]
    /\ loc = [t \in Threads |-> NoLoc]
    /\ comp = CompIdle
    /\ surface_bind_groups = << >>
    /\ lastOp = NoOp
    /\ returned = << >>
    /\ episode = [i \in Ids |-> NoEpisode]
    /\ swaps = [i \in Ids |-> 0]
    /\ atlas = NewAtlas

\* the compositor runs on the main thread: a call of that thread starts only
\* between two draws
OnCpu(t) == t = MainThread => comp.pc = "idle"

\* the registry entry as an Option, for the history variable
Entry(s, id) == IF id \in DOMAIN s THEN Some(s[id]) ELSE None

\* the compositor remembers every front view its current surface has had
\* since it read front_index (history for the consistency of its read)
Track(c, s) ==
    IF c.pc \in {"view_at", "clear", "bind", "bind_v1"} /\ c.cur \in DOMAIN s
    THEN [c EXCEPT !.fronts = @ \cup {s[c.cur].views[s[c.cur].front + 1]}]
    ELSE c

\* the device can still create the two textures of one more double buffer
CanCreateTextures == device + 2 <= 2 * MaxBuffers

\* ------------------------------------------- create_wgpu_surface (window.rs)
\* SurfaceRegistry::create, first half: fetch_add on next_id and the two
\* textures of create_double_buffer (not yet visible to any other thread)
CreateFetch(t, width, height, f) ==
    /\ pc[t] = "idle" /\ held[t] = 0
    /\ OnCpu(t)
    /\ CanCreateTextures
    /\ next_id' = fetch_add(next_id)
    /\ device' = device + 2
    /\ loc' = [loc EXCEPT ![t] = [id |-> next_id, n |-> device, w |-> width,
                                  h |-> height, f |-> f, live |-> FALSE]]
    /\ pc' = [pc EXCEPT ![t] = "create_insert"]
    /\ lastOp' = NoOp
    /\ UNCHANGED <<surfaces, handles, winit, ACTIVE_CONTEXT, windows, redraw_requested,
                   frames, held, comp, surface_bind_groups, returned, episode, swaps,
                   atlas>>

\* SurfaceRegistry::create, second half: insert under the lock and return id;
\* then WgpuSurfaceHandle::new: the first clone, holding the requested size
CreateInsert(t) ==
    /\ pc[t] = "create_insert"
    /\ LET id == loc[t].id
           db == create_double_buffer(loc[t].n, loc[t].w, loc[t].h, loc[t].f)
       IN /\ surfaces' = MapInsert(surfaces, id, db)
          /\ returned' = Append(returned, id)
          /\ episode' = [episode EXCEPT ![id] = NoEpisode]
          /\ swaps' = [swaps EXCEPT ![id] = 0]
          /\ handles' = MapInsert(handles, id,
                            [refs |-> 1, size |-> <<loc[t].w, loc[t].h>>])
          /\ held' = [held EXCEPT ![t] = id]
    /\ comp' = Track(comp, surfaces')
    /\ loc' = [loc EXCEPT ![t] = NoLoc]
    /\ pc' = [pc EXCEPT ![t] = "idle"]
    /\ lastOp' = NoOp
    /\ UNCHANGED <<next_id, device, winit, ACTIVE_CONTEXT, windows, redraw_requested,
                   frames, surface_bind_groups, atlas>>

\* ------------------------------------------------ WgpuSurfaceHandle (Arc)
\* #[derive(Clone)]: another thread receives a clone of a live handle
Clone(t, src) ==
    /\ pc[t] = "idle" /\ held[t] = 0
    /\ OnCpu(t)
    /\ src \in Threads \ {t} /\ held[src] # 0
    /\ handles' = [handles EXCEPT ![held[src]].refs = @ + 1]
    /\ held' = [held EXCEPT ![t] = held[src]]
    /\ lastOp' = NoOp
    /\ UNCHANGED <<surfaces, next_id, device, winit, ACTIVE_CONTEXT, windows,
                   redraw_requested, frames, pc, loc, comp, surface_bind_groups, returned,
                   episode, swaps, atlas>>

\* mutant: every dropped clone deregisters the surface
DropRemoves_any(refs) == TRUE

\* does dropping a clone run WgpuSurfaceHandleInner::drop? (Arc: the last one)
DropRemoves(refs) == refs = 1

\* drop of one clone; the last one runs Inner::drop, i.e. registry.remove
Drop(t) ==
    /\ pc[t] = "idle" /\ held[t] # 0
    /\ OnCpu(t)
    /\ LET id == held[t]
       IN /\ surfaces' = IF DropRemoves(handles[id].refs)
                         THEN remove(surfaces, id) ELSE surfaces
          /\ handles' = IF handles[id].refs = 1
                        THEN MapRemove(handles, id)
                        ELSE [handles EXCEPT ![id].refs = @ - 1]
    /\ held' = [held EXCEPT ![t] = 0]
    /\ comp' = Track(comp, surfaces')
    /\ lastOp' = NoOp
    /\ UNCHANGED <<next_id, device, winit, ACTIVE_CONTEXT, windows, redraw_requested,
                   frames, pc, loc, surface_bind_groups, returned, episode, swaps, atlas>>

\* mutant: the compositor keeps the registry locked for the whole of draw
LockFree_draw(t) == comp.pc = "idle"

\* self.surfaces.lock() by thread t: every registry call takes the mutex and
\* releases it within its own step and draw takes it once per read, so no
\* thread holds it between two steps
LockFree(t) == TRUE

\* registry.swap_buffers(id) with the parity of the swaps of the entry
DoSwap(id) ==
    /\ surfaces' = swap_buffers(surfaces, id)
    /\ swaps' = [swaps EXCEPT ![id] = IF id \in DOMAIN surfaces THEN (@ + 1) % 2 ELSE @]
    /\ comp' = Track(comp, surfaces')
    /\ lastOp' = NoOp

\* WgpuSurfaceHandle::swap_buffers
SwapBuffers(t) ==
    /\ pc[t] = "idle" /\ held[t] # 0
    /\ OnCpu(t)
    /\ DoSwap(held[t])
    /\ UNCHANGED <<next_id, device, handles, winit, ACTIVE_CONTEXT, windows,
                   redraw_requested, frames, pc, held, loc, surface_bind_groups, returned,
                   episode, atlas>>

\* WgpuSurfaceHandle::present, step 1: self.swap_buffers()
PresentSwap(t) ==
    /\ pc[t] = "idle" /\ held[t] # 0
    /\ OnCpu(t)
    /\ LockFree(t)
    /\ DoSwap(held[t])
    /\ pc' = [pc EXCEPT ![t] = "present_set"]
    /\ UNCHANGED <<next_id, device, handles, winit, ACTIVE_CONTEXT, windows,
                   redraw_requested, frames, held, loc, surface_bind_groups, returned,
                   episode, atlas>>

\* mutant: present wakes the compositor whatever set_present_pending returned
PresentWakes_always(ret) == TRUE

\* present wakes the compositor iff set_present_pending returned false
PresentWakes(ret) == ~ret

\* WgpuSurfaceHandle::present, step 2: registry.set_present_pending(id)
PresentSetPending(t) ==
    /\ pc[t] = "present_set"
    /\ LockFree(t)
    /\ LET id == held[t]
           ret == set_present_pending_ret(surfaces, id)
       IN /\ surfaces' = set_present_pending(surfaces, id)
          /\ episode' = [episode EXCEPT
                ![id].falses = IF ret THEN @ ELSE @ + 1,
                ![id].first = IF @ = "none" THEN (IF ret THEN "true" ELSE "false") ELSE @]
          /\ pc' = [pc EXCEPT ![t] = IF PresentWakes(ret) THEN "present_wake" ELSE "idle"]
          /\ loc' = [loc EXCEPT ![t].live = PresentWakes(ret)]
    /\ comp' = Track(comp, surfaces')
    /\ lastOp' = NoOp
    /\ UNCHANGED <<next_id, device, handles, winit, ACTIVE_CONTEXT, windows,
                   redraw_requested, frames, held, surface_bind_groups, returned, swaps,
                   atlas>>

\* WgpuSurfaceHandle::present, step 3: winit.request_redraw() when the handle
\* holds the window, else request_present(), which runs the present trigger
\* (window.rs: it sends CrossEvent::SurfacePresent to the event loop)
PresentWake(t) ==
    /\ pc[t] = "present_wake"
    /\ LET id == held[t]
       IN episode' = [episode EXCEPT
              ![id].redraws = IF loc[t].live /\ winit THEN @ + 1 ELSE @,
              ![id].triggers = IF loc[t].live /\ ~winit THEN @ + 1 ELSE @]
    /\ pc' = [pc EXCEPT ![t] = "idle"]
    /\ loc' = [loc EXCEPT ![t] = NoLoc]
    /\ lastOp' = NoOp
    /\ UNCHANGED <<surfaces, next_id, device, handles, winit, ACTIVE_CONTEXT, windows,
                   redraw_requested, frames, held, comp, surface_bind_groups, returned,
                   swaps, atlas>>

\* a producer's registry.lock_and_get_back_with_size(id)
LockAndGetBackWithSize(t) ==
    /\ pc[t] = "idle" /\ held[t] # 0
    /\ OnCpu(t)
    /\ lastOp' = [op |-> "lock_and_get_back_with_size", id |-> held[t],
                  arg |-> None, before |-> Entry(surfaces, held[t]),
                  ret |-> lock_and_get_back_with_size(surfaces, held[t])]
    /\ UNCHANGED <<surfaces, next_id, device, handles, winit, ACTIVE_CONTEXT, windows,
                   redraw_requested, frames, pc, held, loc, comp, surface_bind_groups,
                   returned, episode, swaps, atlas>>

\* WgpuSurfaceHandle::resize: under the lock of size, return at once when the
\* size is the stored one, else registry.resize(device, id, width, height)
\* and *size = (width, height)
ResizeWithin(cap, t, width, height) ==
    /\ pc[t] = "idle" /\ held[t] # 0
    /\ OnCpu(t)
    /\ handles[held[t]].size # <<width, height>>
    /\ LET id == held[t]
           replaces == resize_replaces(surfaces, id, width, height)
       IN /\ replaces => device + 2 <= cap
          /\ surfaces' = resize(surfaces, device, id, width, height)
          /\ device' = IF replaces THEN device + 2 ELSE device
          /\ swaps' = [swaps EXCEPT ![id] = IF replaces THEN 0 ELSE @]
          /\ handles' = [handles EXCEPT ![id].size = <<width, height>>]
          /\ lastOp' = [op |-> "resize", id |-> id, arg |-> Some(<<width, height>>),
                        before |-> Entry(surfaces, id), ret |-> None]
    /\ comp' = Track(comp, surfaces')
    /\ UNCHANGED <<next_id, winit, ACTIVE_CONTEXT, windows, redraw_requested, frames, pc,
                   held, loc, surface_bind_groups, returned, episode, atlas>>

Resize(t, width, height) == ResizeWithin(2 * MaxBuffers, t, width, height)

\* ------------------------------------------- WgpuRenderer::draw (renderer.rs)
Min(S) == CHOOSE x \in S : \A y \in S : x <= y

\* the compositor moves on to the next surface primitive of the scene, or to
\* the end of the frame
Advance(c) ==
    IF c.scene = {}
    THEN [c EXCEPT !.pc = "retain", !.cur = 0, !.idx = 0, !.fronts = {}]
    ELSE [c EXCEPT !.pc = "front_index", !.cur = Min(c.scene),
                   !.scene = c.scene \ {Min(c.scene)}, !.idx = 0, !.fronts = {}]

\* the scenes drawn: no surface primitive, or the primitive of one surface
Scenes == {{}} \cup {{i} : i \in Ids}

\* RedrawRequested -> draw(scene): about_to_wait requests a redraw on every
\* turn of the event loop, so a frame may start whenever the main thread is
\* free; the scene names a surface painted at some time, live or not
DrawBegin(scene) ==
    /\ comp.pc = "idle" /\ pc[MainThread] = "idle"
    /\ scene \subseteq 1..(next_id - 1)
    /\ comp' = Advance([CompIdle EXCEPT !.scene = scene])
    /\ lastOp' = NoOp
    /\ UNCHANGED <<surfaces, next_id, device, handles, winit, ACTIVE_CONTEXT, windows,
                   redraw_requested, frames, pc, held, loc, surface_bind_groups, returned,
                   episode, swaps, atlas>>

\* registry.front_index(surface_id)
DrawFrontIndex ==
    /\ comp.pc = "front_index"
    /\ LET r == front_index(surfaces, comp.cur)
       IN comp' = IF r = None THEN Advance(comp)
                  ELSE Track([comp EXCEPT !.pc = "view_at", !.idx = r[1]], surfaces)
    /\ lastOp' = NoOp
    /\ UNCHANGED <<surfaces, next_id, device, handles, winit, ACTIVE_CONTEXT, windows,
                   redraw_requested, frames, pc, held, loc, surface_bind_groups, returned,
                   episode, swaps, atlas>>

\* registry.view_at(surface_id, idx).is_some()
DrawViewAt ==
    /\ comp.pc = "view_at"
    /\ LET r == view_at(surfaces, comp.cur, comp.idx)
       IN comp' = IF r = None THEN Advance(comp) ELSE [comp EXCEPT !.pc = "clear"]
    /\ lastOp' = NoOp
    /\ UNCHANGED <<surfaces, next_id, device, handles, winit, ACTIVE_CONTEXT, windows,
                   redraw_requested, frames, pc, held, loc, surface_bind_groups, returned,
                   episode, swaps, atlas>>

\* registry.clear_present_pending(surface_id)
DrawClear ==
    /\ comp.pc = "clear"
    /\ surfaces' = clear_present_pending(surfaces, comp.cur)
    /\ lastOp' = NoOp
    /\ IF comp.cur \in DOMAIN surfaces
       THEN /\ episode' = [episode EXCEPT ![comp.cur] = NoEpisode]
            /\ loc' = [t \in Threads |->
                         IF held[t] = comp.cur /\ pc[t] = "present_wake"
                         THEN [loc[t] EXCEPT !.live = FALSE] ELSE loc[t]]
       ELSE UNCHANGED <<episode, loc>>
    /\ comp' = [comp EXCEPT !.pc = "bind"]
    /\ UNCHANGED <<next_id, device, handles, winit, ACTIVE_CONTEXT, windows,
                   redraw_requested, frames, pc, held, surface_bind_groups, returned,
                   swaps, atlas>>

\* the compositor binds bind group idx of the cache entry of the surface,
\* draws with it and pushes the id on seen_surfaces
Sample(c) == Advance([c EXCEPT !.seen = @ \cup {c.cur}])

\* the second bind group of an entry that or_insert_with is still building
NoView == [w |-> 0, h |-> 0, tex |-> 0]

\* surface_bind_groups.entry(id): a hit binds the cached group; a miss starts
\* or_insert_with by view_at(id, 0).unwrap()
DrawBind ==
    /\ comp.pc = "bind"
    /\ IF comp.cur \in DOMAIN surface_bind_groups
       THEN /\ comp' = Sample(comp)
            /\ UNCHANGED surface_bind_groups
       ELSE LET r == view_at(surfaces, comp.cur, 0)
            IN IF r = None
               THEN /\ comp' = [comp EXCEPT !.pc = "panicked"]
                    /\ UNCHANGED surface_bind_groups
               ELSE /\ comp' = [comp EXCEPT !.pc = "bind_v1"]
                    /\ surface_bind_groups' =
                           MapInsert(surface_bind_groups, comp.cur, <<r[1], NoView>>)
    /\ lastOp' = NoOp
    /\ UNCHANGED <<surfaces, next_id, device, handles, winit, ACTIVE_CONTEXT, windows,
                   redraw_requested, frames, pc, held, loc, returned, episode, swaps,
                   atlas>>

\* or_insert_with continues: view_at(id, 1).unwrap(), both bind groups are
\* created and stored, entry[idx] is bound
DrawBindV1 ==
    /\ comp.pc = "bind_v1"
    /\ LET r == view_at(surfaces, comp.cur, 1)
           v0 == surface_bind_groups[comp.cur][1]
       IN IF r = None
          THEN /\ comp' = [comp EXCEPT !.pc = "panicked"]
               /\ surface_bind_groups' = MapRemove(surface_bind_groups, comp.cur)
          ELSE /\ surface_bind_groups' =
                      [surface_bind_groups EXCEPT ![comp.cur] = <<v0, r[1]>>]
               /\ comp' = Sample(comp)
    /\ lastOp' = NoOp
    /\ UNCHANGED <<surfaces, next_id, device, handles, winit, ACTIVE_CONTEXT, windows,
                   redraw_requested, frames, pc, held, loc, returned, episode, swaps,
                   atlas>>

\* end of draw: cache.retain(|id, _| seen_surfaces.contains(id)), submit
DrawRetain ==
    /\ comp.pc = "retain"
    /\ surface_bind_groups' =
           [i \in DOMAIN surface_bind_groups \cap comp.seen |-> surface_bind_groups[i]]
    /\ comp' = CompIdle
    /\ lastOp' = NoOp
    /\ UNCHANGED <<surfaces, next_id, device, handles, winit, ACTIVE_CONTEXT, windows,
                   redraw_requested, frames, pc, held, loc, returned, episode, swaps,
                   atlas>>

\* ------------------------------------------------------ WgpuAtlas (calls)
\* the registry, the handles and the compositor, untouched by the atlas
registryVars == <<surfaces, next_id, handles, winit, ACTIVE_CONTEXT, windows,
                  redraw_requested, frames, pc, held, loc, comp, surface_bind_groups,
                  returned, episode, swaps>>

\* bounds of the atlas: textures the device creates, uploads queued
MaxAtlasTextures == 2
MaxUploads == 1

\* WgpuAtlas::get_or_insert_with(key, build), the whole call under the mutex,
\* on a device that creates at most cap textures; the history keeps the slots
\* whose allocator the call asked in vain
GetOrInsertWithin(cap, key, build) ==
    /\ \E choice \in IF key \in DOMAIN atlas.tiles_by_key
                        \/ ~build.ok \/ build.val = None
                     THEN {[slot |-> -1, at |-> None, refused |-> {}]}
                     ELSE AllocateChoices(atlas, build.val[1], texture_kind(key)) :
           \E r \in {atlas_get_or_insert_with(atlas, device, key, build, choice)} :
           LET created == Len(r.atlas.initializations) - Len(atlas.initializations)
           IN /\ device + created <= cap
              /\ Len(r.atlas.uploads) <= MaxUploads
              /\ atlas' = r.atlas
              /\ device' = device + created
              /\ lastOp' = [op |-> "get_or_insert_with", id |-> key,
                            arg |-> IF r.built THEN Some(build) ELSE None,
                            before |-> Some(choice.refused), ret |-> r.ret]
    /\ UNCHANGED registryVars

GetOrInsertWith(key, build) == GetOrInsertWithin(MaxAtlasTextures, key, build)

\* WgpuAtlas::remove(key)
AtlasRemove(key) ==
    /\ atlas' = atlas_remove(atlas, key)
    /\ lastOp' = [op |-> "atlas_remove", id |-> key, arg |-> None,
                  before |-> Entry(atlas.tiles_by_key, key), ret |-> None]
    /\ UNCHANGED <<registryVars, device>>

\* WgpuAtlas::before_frame: flush under the mutex
BeforeFrame ==
    /\ LET r == flush(atlas)
       IN /\ atlas' = r.atlas
          /\ lastOp' = [op |-> "before_frame", id |-> "", arg |-> None,
                        before |-> None,
                        ret |-> Some([copies |-> r.copies, panicked |-> r.panicked])]
    /\ UNCHANGED <<registryVars, device>>

\* The program as it runs: the main thread creates surfaces, lays out
\* (prepaint calls WgpuSurfaceHandle::resize), drops the element's handle and
\* composites; a producer thread clones the handle, renders and presents.
Producers == Threads \ {MainThread}

Next ==
    \/ \E sz \in Sizes, f \in Formats : CreateFetch(MainThread, sz[1], sz[2], f)
    \/ CreateInsert(MainThread)
    \/ \E t \in Producers : Clone(t, MainThread)
    \/ \E t \in Threads : Drop(t)
    \/ \E t \in Producers : SwapBuffers(t)
    \/ \E t \in Producers : PresentSwap(t)
    \/ \E t \in Producers : PresentSetPending(t)
    \/ \E t \in Producers : PresentWake(t)
    \/ \E sz \in Sizes : Resize(MainThread, sz[1], sz[2])
    \/ \E scene \in Scenes : DrawBegin(scene)
    \/ DrawFrontIndex
    \/ DrawViewAt
    \/ DrawClear
    \/ DrawBind
    \/ DrawBindV1
    \/ DrawRetain

Spec == Init /\ [][Next]_vars

\* the run with a fair scheduler and a fair registry mutex for the producers:
\* a producer inside present() is not starved of the cpu or of the lock; the
\* compositor and every other call are free to stop for good. The handles
\* hold no winit window: present() wakes through the present trigger.
InitFair == Init /\ winit = FALSE

SpecFair ==
    /\ InitFair
    /\ [][Next]_vars
    /\ \A t \in Producers :
           WF_vars(PresentSetPending(t)) /\ WF_vars(PresentWake(t))

\* The registry and the handle as an API: every thread may make every call
\* (the handle is Clone + Send + Sync); no frame is composited.
NextApi ==
    \/ \E t \in Threads, sz \in Sizes, f \in Formats :
           CreateFetch(t, sz[1], sz[2], f)
    \/ \E t \in Threads : CreateInsert(t)
    \/ \E t \in Threads, src \in Threads : Clone(t, src)
    \/ \E t \in Threads : Drop(t)
    \/ \E t \in Threads : SwapBuffers(t)
    \/ \E t \in Threads : PresentSwap(t)
    \/ \E t \in Threads : PresentSetPending(t)
    \/ \E t \in Threads : PresentWake(t)
    \/ \E t \in Threads : LockAndGetBackWithSize(t)
    \/ \E t \in Threads, sz \in Sizes : Resize(t, sz[1], sz[2])

SpecApi == Init /\ [][NextApi]_vars

\* Two threads that each create one surface, in a format of their own, and
\* swap and resize it, on a device with room for one double buffer more.
ThreadFormat(t) == IF t = MainThread THEN "Rgba8UnormSrgb" ELSE "Bgra8Unorm"

NextResize ==
    \/ \E t \in Threads, sz \in Sizes :
           CreateFetch(t, sz[1], sz[2], ThreadFormat(t))
    \/ \E t \in Threads : CreateInsert(t)
    \/ \E t \in Threads : SwapBuffers(t)
    \/ \E t \in Threads, sz \in Sizes :
           ResizeWithin(2 * (MaxBuffers + 1), t, sz[1], sz[2])

SpecResize == InitFair /\ [][NextResize]_vars

\* SurfaceRegistry::resize called directly with the id of the handle a thread
\* holds (the handle's own size is not involved)
RegistryResize(t, width, height) ==
    /\ pc[t] = "idle" /\ held[t] # 0
    /\ OnCpu(t)
    /\ LET id == held[t]
           replaces == resize_replaces(surfaces, id, width, height)
       IN /\ replaces => device + 2 <= 2 * (MaxBuffers + 1)
          /\ surfaces' = resize(surfaces, device, id, width, height)
          /\ device' = IF replaces THEN device + 2 ELSE device
          /\ swaps' = [swaps EXCEPT ![id] = IF replaces THEN 0 ELSE @]
          /\ lastOp' = [op |-> "registry_resize", id |-> id,
                        arg |-> Some(<<width, height>>),
                        before |-> Entry(surfaces, id), ret |-> None]
    /\ comp' = Track(comp, surfaces')
    /\ UNCHANGED <<next_id, handles, winit, ACTIVE_CONTEXT, windows, redraw_requested,
                   frames, pc, held, loc, surface_bind_groups, returned, episode, atlas>>

\* The registry called directly: surfaces are created, swapped, presented to
\* and resized through SurfaceRegistry itself.
NextRegistry ==
    \/ \E t \in Threads, sz \in Sizes, f \in Formats :
           CreateFetch(t, sz[1], sz[2], f)
    \/ \E t \in Threads : CreateInsert(t)
    \/ \E t \in Threads : SwapBuffers(t)
    \/ \E t \in Threads, sz \in Sizes : RegistryResize(t, sz[1], sz[2])

SpecRegistry == InitFair /\ [][NextRegistry]_vars

\* the closures worth passing for a key: build is not invoked on a hit, so
\* one closure stands for all of them there
BuildsTried(key) ==
    IF key \in DOMAIN atlas.tiles_by_key THEN {Ok(None)} ELSE BuildResults

\* The atlas as the renderer and the text system use it: calls in any order,
\* each one atomic under the atlas mutex.
NextAtlas ==
    \/ \E key \in Keys :
           \E build \in BuildsTried(key) : GetOrInsertWith(key, build)
    \/ \E key \in Keys : AtlasRemove(key)
    \/ BeforeFrame

\* no surface handle is created here, so the window's option is left at one
\* of its values
InitAtlas == Init /\ winit = FALSE

SpecAtlas == InitAtlas /\ [][NextAtlas]_vars

\* The text system rasterising glyphs of one size into the monochrome store:
\* three keys, one of which is evicted and rasterised again, and a device with
\* room for one texture more
KeysScan == {"m1", "m2", "m3"}

GlyphInsert(key) == GetOrInsertWithin(MaxAtlasTextures + 1, key, Ok(Some(<<1, 1>>)))

GlyphEvict == AtlasRemove("m1")

NextScan ==
    \/ \E key \in KeysScan : GlyphInsert(key)
    \/ GlyphEvict
    \/ BeforeFrame

SpecScan == InitAtlas /\ [][NextScan]_vars

\* ------------------------------------------ the staging buffer of an upload
\* wgpu::COPY_BYTES_PER_ROW_ALIGNMENT, scaled like the texture sizes
COPY_BYTES_PER_ROW_ALIGNMENT == 8

\* bounds of the tiles uploaded
MaxWidth == 8
MaxHeight == 2

\* WgpuAtlasTexture::bytes_per_pixel (any other format panics; the atlas
\* creates no other)
bytes_per_pixel(fmt) == IF fmt = "R8Unorm" THEN 1 ELSE 4

\* DevicePixels::to_bytes
to_bytes(width, bpp) == width * bpp

\* mutant: the row is always padded, by a whole alignment when it was aligned
padded_bytes_per_row_next(unpadded_bytes_per_row) ==
    (unpadded_bytes_per_row \div COPY_BYTES_PER_ROW_ALIGNMENT + 1)
        * COPY_BYTES_PER_ROW_ALIGNMENT

\* (unpadded_bytes_per_row + align - 1) / align * align
padded_bytes_per_row(unpadded_bytes_per_row) ==
    ((unpadded_bytes_per_row + COPY_BYTES_PER_ROW_ALIGNMENT - 1)
        \div COPY_BYTES_PER_ROW_ALIGNMENT) * COPY_BYTES_PER_ROW_ALIGNMENT

\* for row in row..height: padded[dst_start..dst_start + unpadded]
\*     .copy_from_slice(&bytes[src_start..src_start + unpadded])
RECURSIVE copy_rows(_, _, _, _, _, _)
copy_rows(padded, bytes, row, height, unpadded, padded_row) ==
    IF row >= height THEN padded
    ELSE LET src_start == row * unpadded
             dst_start == row * padded_row
         IN copy_rows([i \in DOMAIN padded |->
                          IF i > dst_start /\ i <= dst_start + unpadded
                          THEN bytes[src_start + (i - dst_start)]
                          ELSE padded[i]],
                      bytes, row + 1, height, unpadded, padded_row)

\* WgpuAtlasState::upload_texture, the staging buffer: padded_bytes_per_row
\* and the contents handed to create_buffer_init
staging_buffer(kind, sz, bytes) ==
    LET bpp == bytes_per_pixel(texture_format(kind))
        unpadded == to_bytes(sz[1], bpp)
        padded_row == padded_bytes_per_row(unpadded)
        height == sz[2]
    IN [padded_bytes_per_row |-> padded_row,
        contents |->
            IF padded_row # unpadded
            THEN copy_rows([i \in 1..(padded_row * height) |-> 0], bytes, 0,
                           height, unpadded, padded_row)
            ELSE bytes]

\* the bytes a build closure hands over for a tile: width * height pixels
SourceBytes(kind, sz, seed) ==
    [i \in 1..(to_bytes(sz[1], bytes_per_pixel(texture_format(kind))) * sz[2])
        |-> (7 * i + seed) % 256]

UploadInputs ==
    [kind : Kinds, size : (1..MaxWidth) \X (1..MaxHeight), seed : 0..2]

\* a tile about to be uploaded, on a new registry and atlas
InitUpload ==
    /\ \E input \in UploadInputs :
            lastOp = [op |-> "upload_input", id |-> "", arg |-> Some(input),
                      before |-> None, ret |-> None]
    /\ surfaces = << >>
    /\ next_id = 1
    /\ device = 0
    /\ handles = << >>
    /\ winit = FALSE
    /\ ACTIVE_CONTEXT = None
    /\ windows = << >>
    /\ redraw_requested = FALSE
    /\ frames = [i \in Ids |-> [presented |-> 0, read |-> 0]]
    /\ pc = [t \in Threads |-> "idle"]
    /\ held = [t \in Threads |-> 0]
    /\ loc = [t \in Threads |-> NoLoc]
    /\ comp = CompIdle
    /\ surface_bind_groups = << >>
    /\ returned = << >>
    /\ episode = [i \in Ids |-> NoEpisode]
    /\ swaps = [i \in Ids |-> 0]
    /\ atlas = NewAtlas

UploadTexture ==
    /\ lastOp.op = "upload_input"
    /\ LET input == lastOp.arg[1]
       IN lastOp' = [op |-> "upload_texture", id |-> "", arg |-> lastOp.arg,
                     before |-> None,
                     ret |-> Some(staging_buffer(input.kind, input.size,
                                    SourceBytes(input.kind, input.size, input.seed)))]
    /\ UNCHANGED <<registryVars, device, atlas>>

NextUpload == UploadTexture

SpecUpload == InitUpload /\ [][NextUpload]_vars

\* ================================================================ claims
Range(q) == {q[i] : i \in DOMAIN q}

\* C1: in every reachable state every live entry has front in {0, 1}, its
\* back index is 1 - front, and front_view and back_view are views of the two
\* different textures of the pair.
C1_FrontBackDistinct ==
    \A id \in DOMAIN surfaces :
        LET db == surfaces[id]
        IN /\ db.front \in {0, 1}
           /\ front_view(surfaces, id) # back_view(surfaces, id)
           /\ front_view(surfaces, id) = Some(db.textures[db.front + 1])
           /\ back_view(surfaces, id) = Some(db.textures[(1 - db.front) + 1])
           /\ db.textures[1] # db.textures[2]

\* a swapped entry that a resize (or a second create) built, with a present
\* pending
C1_Witness ==
    \E id \in DOMAIN surfaces :
        /\ surfaces[id].front = 1
        /\ surfaces[id].textures[1].tex > 2
        /\ surfaces[id].present_pending

\* C2: set_present_pending returns false exactly once per pending episode:
\* the first call after creation or after a clear returns false, every later
\* call before the next clear returns true.
C2_FalseOncePerEpisode ==
    \A id \in DOMAIN surfaces :
        episode[id].first # "none" =>
            episode[id].first = "false" /\ episode[id].falses = 1

\* C3: present() sends exactly one wake (request_redraw or the present
\* trigger, never both) when set_present_pending returned false and none when
\* it returned true, so the presents of one episode (no compositor clear in
\* between) cause exactly one wake.
C3_OneWakePerEpisode ==
    \A id \in DOMAIN surfaces :
        LET e == episode[id]
            underWay == \E t \in Threads : held[t] = id /\ pc[t] = "present_wake"
        IN /\ e.redraws = 0 \/ e.triggers = 0
           /\ e.redraws + e.triggers <= 1
           /\ (e.first # "none" /\ ~underWay) => e.redraws + e.triggers = 1

\* C4: the buffer the compositor samples for a surface is the front buffer of
\* a registry state that existed during its read of that surface (from
\* front_index to the draw call).
C4_SampledIsFront ==
    [][(comp.pc \in {"bind", "bind_v1"} /\ comp'.pc \in {"front_index", "retain"})
          => surface_bind_groups'[comp.cur][comp.idx + 1] \in comp.fronts]_vars

\* C5: lock_and_get_back_with_size returns the back view of the entry as it
\* was at the call together with the dimensions of the texture behind that
\* view.
C5_BackWithSizeConsistent ==
    (lastOp.op = "lock_and_get_back_with_size" /\ lastOp.ret # None) =>
        LET e == lastOp.before[1]
            view == lastOp.ret[1][1]
            dims == lastOp.ret[1][2]
        IN /\ <<view.w, view.h>> = dims
           /\ view = e.textures[(1 - e.front) + 1]
           /\ view # e.textures[e.front + 1]

\* the accessor has run on an entry that was rebuilt and then swapped
C5_Witness ==
    /\ lastOp.op = "lock_and_get_back_with_size" /\ lastOp.ret # None
    /\ lastOp.before[1].front = 1
    /\ lastOp.before[1].textures[1].tex > 2

\* C6: registry.resize(id, w, h) with the entry's current (w, h) changes
\* nothing: front, textures, views, dimensions, format, pending flag of that
\* entry, every other entry, and no texture is created.
C6_ResizeSameIsNoop ==
    [][(/\ lastOp'.op = "resize" /\ lastOp'.before # None
        /\ lastOp'.before = Entry(surfaces, lastOp'.id)
        /\ surfaces[lastOp'.id].width = lastOp'.arg[1][1]
        /\ surfaces[lastOp'.id].height = lastOp'.arg[1][2])
       => (surfaces' = surfaces /\ device' = device)]_vars

\* the last step was registry.resize(1, 1) on an entry created as (0, 0)
\* (stored as (1, 1)), swapped and pending
C6_Witness ==
    /\ lastOp.op = "resize" /\ lastOp.before # None
    /\ lastOp.arg = Some(<<1, 1>>)
    /\ lastOp.before[1].width = 1 /\ lastOp.before[1].height = 1
    /\ lastOp.before[1].front = 1
    /\ lastOp.before[1].present_pending

\* this step is a swap_buffers call on the live entry of id: the parity of
\* its swaps changes and no entry is built
IsSwapStep(id) ==
    /\ id \in DOMAIN surfaces /\ id \in DOMAIN surfaces'
    /\ swaps'[id] # swaps[id]
    /\ device' = device

\* C7: swap_buffers flips front and changes nothing else (dimensions,
\* textures, format, pending flag, other entries), and a second swap of the
\* surface right after it restores the entry as it was before the first.
C7_SwapInvolution ==
    [][\A id \in Ids :
          IsSwapStep(id) =>
              /\ surfaces'[id].front = 1 - surfaces[id].front
              /\ [surfaces' EXCEPT ![id].front = surfaces[id].front] = surfaces
              /\ swap_buffers(surfaces', id) = surfaces]_vars

\* the two threads have swapped a pending, rebuilt entry one after the other
\* inside present(), and it is back at its initial front
C7_Witness ==
    \E id \in DOMAIN surfaces :
        /\ \A t \in Threads : held[t] = id /\ pc[t] = "present_set"
        /\ surfaces[id].present_pending
        /\ surfaces[id].textures[1].tex > 2
        /\ surfaces[id].front = 0

\* C8: after n completed swap_buffers calls on an entry, from any threads,
\* front is the initial 0 if n is even and 1 if n is odd, and front_index
\* never yields anything but 0 or 1.
C8_SwapsSerialized ==
    \A id \in DOMAIN surfaces :
        /\ surfaces[id].front = swaps[id]
        /\ front_index(surfaces, id) \in {Some(0), Some(1)}

\* one thread has swapped the surface and the other has swapped it inside a
\* present() still under way: three swaps or one, and front is 1
C8_Witness ==
    \E id \in DOMAIN surfaces, t \in Threads :
        /\ held[t] = id /\ pc[t] = "present_set"
        /\ \E u \in Threads \ {t} : held[u] = id /\ pc[u] = "idle"
        /\ episode[id].falses = 1
        /\ swaps[id] = 1

\* C9: the entry of a surface is in the registry while a clone of its handle
\* is alive; cloning and dropping a clone that is not the last leave the
\* entry untouched; the entry leaves the registry in exactly the steps that
\* drop the last clone.
C9_EntryLivesWithHandle ==
    [][/\ \A id \in DOMAIN handles' :
              /\ id \in DOMAIN surfaces'
              /\ handles'[id].refs = Cardinality({t \in Threads : held'[t] = id})
              /\ handles'[id].refs >= 1
       /\ \A id \in Ids :
              /\ (id \in DOMAIN surfaces /\ id \notin DOMAIN surfaces')
                     <=> (/\ id \in DOMAIN handles /\ handles[id].refs = 1
                          /\ id \notin DOMAIN handles')
              /\ (/\ id \in DOMAIN handles /\ id \in DOMAIN handles'
                  /\ handles'[id].refs # handles[id].refs)
                     => (id \in DOMAIN surfaces' /\ surfaces'[id] = surfaces[id])]_vars

\* a surface that was created is gone from the registry and has no handle,
\* while the other surface lives on with two clones
C9_Witness ==
    \E id \in Range(returned), other \in DOMAIN handles :
        /\ id \notin DOMAIN surfaces /\ id \notin DOMAIN handles
        /\ handles[other].refs = 2

\* C10 as stated: create calls return ids in strictly increasing order.
C10_ReturnedIncreasing ==
    \A i, j \in DOMAIN returned : i < j => returned[i] < returned[j]

\* ids a create call has taken from the counter and not yet returned
InFlight == {t \in Threads : pc[t] = "create_insert"}

\* C10 (amended): every create returns an id different from every id returned
\* before; the counter hands ids to the calls in strictly increasing order
\* (each fetch_add takes the current value and raises the counter by one), so
\* no id is ever taken twice, removed or not; racing calls may insert and
\* return their ids in another order.
C10_IdsUnique ==
    [][/\ \A i, j \in DOMAIN returned' : i # j => returned'[i] # returned'[j]
       /\ \A i \in DOMAIN returned' : returned'[i] < next_id'
       /\ \A t \in InFlight' :
              /\ loc'[t].id < next_id'
              /\ loc'[t].id \notin Range(returned')
              /\ \A u \in InFlight' \ {t} : loc'[u].id # loc'[t].id
       /\ next_id' >= next_id
       /\ \A t \in Threads :
              (pc[t] = "idle" /\ pc'[t] = "create_insert")
                  => (loc'[t].id = next_id /\ next_id' = next_id + 1)]_vars

\* two racing creates have returned their ids out of order, and the first
\* surface has been removed since
C10_Witness ==
    /\ Len(returned) = 2 /\ returned[1] > returned[2]
    /\ returned[1] \notin DOMAIN surfaces


\* ids whose remove(id) has run: create returned them and the last clone of
\* their handle has been dropped
Removed == {id \in Range(returned) : id \notin DOMAIN handles}

\* every call of the registry on an absent id, over all sizes and indices,
\* returns None / false and leaves the map as it is
AbsentCallsInert(s, id) ==
    /\ front_view(s, id) = None /\ back_view(s, id) = None
    /\ front_index(s, id) = None /\ size(s, id) = None
    /\ \A idx \in 0..2 : view_at(s, id, idx) = None
    /\ set_present_pending_ret(s, id) = FALSE /\ set_present_pending(s, id) = s
    /\ is_present_pending(s, id) = FALSE
    /\ swap_buffers(s, id) = s /\ clear_present_pending(s, id) = s
    /\ \A sz \in Sizes : resize(s, device, id, sz[1], sz[2]) = s

\* C11: once remove(id) has run, id is absent from the registry and stays
\* absent and removed in every later step; on it the views, index and size
\* are None, the pending flag reads and sets as false, and swap_buffers,
\* resize and clear_present_pending change nothing.
C11_RemovedStaysAbsent ==
    [][\A id \in Removed :
          /\ id \notin DOMAIN surfaces /\ id \notin DOMAIN surfaces'
          /\ id \in Removed'
          /\ AbsentCallsInert(surfaces, id)]_vars

\* the compositor is in the middle of drawing a surface that has just been
\* removed, while another surface is live
C11_Witness ==
    /\ comp.pc \in {"view_at", "clear"} /\ comp.cur \in Removed
    /\ surfaces # << >>

\* C12: a producer inside present() (after its swap) reaches the end of
\* present() by its own steps, whatever the compositor does or fails to do.
C12_PresentTerminates ==
    \A t \in Producers :
        (pc[t] \in {"present_set", "present_wake"}) ~> (pc[t] = "idle")

\* a producer is inside present() with the flag of its surface still set
\* while the compositor is in the middle of a draw of that surface
C12_Witness ==
    \E t \in Producers :
        /\ pc[t] = "present_set" /\ held[t] \in DOMAIN surfaces
        /\ surfaces[held[t]].present_pending
        /\ comp.pc = "view_at" /\ comp.cur = held[t]

\* C13: the step of present() that swaps flips front of the surface, and the
\* later steps of the same present() leave front as it is: one flip for each
\* present(), whatever the pending flag and the compositor's progress.
C13_PresentFlipsOnce ==
    [][\A t \in Threads :
          LET id == held[t]
          IN /\ (pc[t] = "idle" /\ pc'[t] = "present_set" /\ id \in DOMAIN surfaces)
                 => /\ id \in DOMAIN surfaces'
                    /\ surfaces'[id].front = 1 - surfaces[id].front
             /\ (pc[t] \in {"present_set", "present_wake"} /\ pc'[t] # pc[t]
                 /\ id \in DOMAIN surfaces)
                 => /\ id \in DOMAIN surfaces'
                    /\ surfaces'[id].front = surfaces[id].front]_vars

\* a present() has just swapped although the flag of an earlier present() is
\* still set and the compositor has sampled no frame of the surface
C13_Witness ==
    \E t \in Producers :
        /\ pc[t] = "present_set" /\ held[t] \in DOMAIN surfaces
        /\ surfaces[held[t]].present_pending
        /\ comp = CompIdle /\ surface_bind_groups = << >>

\* C14: get_or_insert_with on a cached key returns the stored tile without
\* invoking build and changes nothing in the atlas; the stored tile is the one
\* the inserting call returned, since an insertion returns what it stores and
\* a tile stays as stored for as long as its key is cached.
C14_HitReturnsStored ==
    [][/\ (lastOp'.op = "get_or_insert_with"
            /\ lastOp'.id \in DOMAIN atlas.tiles_by_key)
           => /\ atlas' = atlas /\ device' = device
              /\ lastOp'.arg = None
              /\ lastOp'.ret = Ok(Some(atlas.tiles_by_key[lastOp'.id]))
       /\ (lastOp'.op = "get_or_insert_with"
            /\ lastOp'.id \notin DOMAIN atlas.tiles_by_key
            /\ lastOp'.id \in DOMAIN atlas'.tiles_by_key)
           => lastOp'.ret = Ok(Some(atlas'.tiles_by_key[lastOp'.id]))
       /\ \A k \in DOMAIN atlas.tiles_by_key \cap DOMAIN atlas'.tiles_by_key :
              atlas'.tiles_by_key[k] = atlas.tiles_by_key[k]]_vars

\* a hit has just answered while the upload of another tile is still queued
C14_Witness ==
    /\ lastOp.op = "get_or_insert_with" /\ lastOp.arg = None
    /\ lastOp.ret = Ok(Some(atlas.tiles_by_key[lastOp.id]))
    /\ atlas.uploads # << >>
    /\ \E k \in DOMAIN atlas.tiles_by_key : k # lastOp.id

\* C15: a miss whose build fails or yields None commits nothing: the result
\* is the error of build, or Ok(None), and the atlas and the device are as
\* before the call.
C15_FailedBuildCommitsNothing ==
    [][(/\ lastOp'.op = "get_or_insert_with" /\ lastOp'.arg # None
        /\ (~lastOp'.arg[1].ok \/ lastOp'.arg[1].val = None))
       => /\ atlas' = atlas /\ device' = device
          /\ lastOp'.ret = lastOp'.arg[1]]_vars

\* a build has just failed on an atlas that holds tiles and queued uploads
C15_Witness ==
    /\ lastOp.op = "get_or_insert_with" /\ lastOp.arg # None
    /\ ~lastOp.ret.ok /\ lastOp.ret = lastOp.arg[1]
    /\ atlas.tiles_by_key # << >> /\ atlas.uploads # << >>

\* C16: remove of a key that is not cached, a second remove of the same key
\* included, changes nothing.
C16_RemoveAbsentIsNoop ==
    [][(lastOp'.op = "atlas_remove" /\ lastOp'.id \notin DOMAIN atlas.tiles_by_key)
       => atlas' = atlas /\ device' = device]_vars

\* a key has just been removed again after its first remove destroyed its
\* texture, while a texture of its kind is live
C16_Witness ==
    /\ lastOp.op = "atlas_remove" /\ lastOp.before = None
    /\ atlas.storage[texture_kind(lastOp.id)].free_list # << >>
    /\ Occupied(atlas.storage[texture_kind(lastOp.id)]) # {}

\* the cached keys whose tile is in the texture of this kind and slot
KeysIn(a, kind, i) ==
    {k \in DOMAIN a.tiles_by_key :
        a.tiles_by_key[k].texture_id = [kind |-> kind, index |-> i]}

\* C17: the live-tile count of every live texture is the number of cached
\* keys whose tile is in that texture.
C17_CountIsCachedKeys ==
    \A kind \in Kinds : \A i \in Occupied(atlas.storage[kind]) :
        /\ TextureAt(atlas.storage[kind], i).id = [kind |-> kind, index |-> i]
        /\ TextureAt(atlas.storage[kind], i).live_atlas_keys
               = Cardinality(KeysIn(atlas, kind, i))

\* a texture still holds one cached tile after another key of it was removed
C17_Witness ==
    /\ lastOp.op = "atlas_remove" /\ lastOp.before # None
    /\ LET id == lastOp.before[1].texture_id
       IN /\ id.index \in Occupied(atlas.storage[id.kind])
          /\ TextureAt(atlas.storage[id.kind], id.index).live_atlas_keys = 1
          /\ Len(TextureAt(atlas.storage[id.kind], id.index).allocator) >= 2

\* the step is a remove of a cached key, the last one of the texture in slot
\* i of the kind
RemovesLastTile(kind, i) ==
    /\ lastOp'.op = "atlas_remove" /\ lastOp'.before # None
    /\ lastOp'.before[1].texture_id = [kind |-> kind, index |-> i]
    /\ TextureAt(atlas.storage[kind], i).live_atlas_keys = 1

\* C18: the slot of a texture is emptied exactly by the removes that bring
\* its count to zero, and such a remove pushes the slot index on the free
\* list of the kind; in every other step the texture stays in its slot.
C18_DestroyedAtZeroOnly ==
    [][\A kind \in Kinds : \A i \in Occupied(atlas.storage[kind]) :
          IF RemovesLastTile(kind, i)
          THEN /\ i \notin Occupied(atlas'.storage[kind])
               /\ atlas'.storage[kind].free_list
                      = Append(atlas.storage[kind].free_list, i)
          ELSE /\ i \in Occupied(atlas'.storage[kind])
               /\ TextureAt(atlas'.storage[kind], i).raw
                      = TextureAt(atlas.storage[kind], i).raw]_vars

\* a remove has just destroyed a texture while another texture of the kind
\* stays live
C18_Witness ==
    /\ lastOp.op = "atlas_remove" /\ lastOp.before # None
    /\ LET id == lastOp.before[1].texture_id
       IN /\ id.index \notin Occupied(atlas.storage[id.kind])
          /\ atlas.storage[id.kind].free_list # << >>
          /\ Occupied(atlas.storage[id.kind]) # {}

\* C19: a texture created while the free list of its kind is non-empty takes
\* the index last pushed on the list and the list of slots does not grow; with
\* an empty free list it is appended at the next index.
C19_FreeListFirst ==
    [][\A kind \in Kinds :
          LET list == atlas.storage[kind]
              new == atlas'.storage[kind]
              created == {i \in Occupied(new) :
                             i \notin Occupied(list)
                             \/ TextureAt(new, i).raw # TextureAt(list, i).raw}
          IN \A i \in created :
                IF list.free_list # << >>
                THEN /\ i = list.free_list[Len(list.free_list)]
                     /\ Len(new.textures) = Len(list.textures)
                     /\ new.free_list = SubSeq(list.free_list, 1, Len(list.free_list) - 1)
                ELSE /\ i = Len(list.textures)
                     /\ Len(new.textures) = Len(list.textures) + 1
                     /\ new.free_list = << >>]_vars

\* the sole tile of the texture in slot 0 was removed and the next texture of
\* the kind, the second the device created, has taken slot 0 again
C19_Witness ==
    \E kind \in Kinds :
        /\ \A other \in Kinds \ {kind} : atlas.storage[other] = EmptyList
        /\ Occupied(atlas.storage[kind]) = {0}
        /\ Len(atlas.storage[kind].textures) = 1
        /\ atlas.storage[kind].free_list = << >>
        /\ TextureAt(atlas.storage[kind], 0).raw.tex = 2

\* the region of its texture a tile covers
TileRect(tile) == [min |-> tile.bounds.origin, size |-> tile.bounds.size]

\* C20: every allocation of a tile whose area fits the capacity of one default
\* texture succeeds with the size asked for, and the tiles cached in one
\* texture lie within the size of that texture and do not overlap each other.
C20_TilesDisjoint ==
    /\ (/\ lastOp.op = "get_or_insert_with" /\ lastOp.arg # None
        /\ lastOp.arg[1].ok /\ lastOp.arg[1].val # None
        /\ lastOp.arg[1].val[1][1] * lastOp.arg[1].val[1][2]
               <= DEFAULT_ATLAS_SIZE * DEFAULT_ATLAS_SIZE)
       => /\ lastOp.ret.ok /\ lastOp.ret.val # None
          /\ lastOp.ret.val[1].bounds.size = lastOp.arg[1].val[1]
    /\ \A k \in DOMAIN atlas.tiles_by_key :
          LET tile == atlas.tiles_by_key[k]
              id == tile.texture_id
          IN /\ Resolves(atlas, id)
             /\ tile.bounds.origin[1] >= 0 /\ tile.bounds.origin[2] >= 0
             /\ tile.bounds.origin[1] + tile.bounds.size[1]
                    <= TextureAt(atlas.storage[id.kind], id.index).size[1]
             /\ tile.bounds.origin[2] + tile.bounds.size[2]
                    <= TextureAt(atlas.storage[id.kind], id.index).size[2]
             /\ \A k2 \in DOMAIN atlas.tiles_by_key \ {k} :
                    atlas.tiles_by_key[k2].texture_id = id
                        => ~Overlap(TileRect(tile), TileRect(atlas.tiles_by_key[k2]))

\* two tiles are cached side by side in a texture where the place of a tile
\* removed earlier is still taken
C20_Witness ==
    \E k \in DOMAIN atlas.tiles_by_key, k2 \in DOMAIN atlas.tiles_by_key :
        /\ k # k2
        /\ atlas.tiles_by_key[k].texture_id = atlas.tiles_by_key[k2].texture_id
        /\ Len(TextureAt(atlas.storage[atlas.tiles_by_key[k].texture_id.kind],
                         atlas.tiles_by_key[k].texture_id.index).allocator) >= 3

\* the last call was a miss whose build yielded a tile of this size
BuiltTile(sz) ==
    /\ lastOp.op = "get_or_insert_with" /\ lastOp.arg # None
    /\ lastOp.arg[1] = Ok(Some(sz))

\* C21: a miss whose tile cannot be placed even in a new texture (the size is
\* beyond what the device creates) returns the empty result Ok(None).
C21_ExhaustionIsEmptyResult ==
    \A sz \in TileSizes :
        (BuiltTile(sz) /\ ~device_accepts(NewTexture(sz).size))
            => lastOp.ret = Ok(None)

\* C25: a tile placed in an existing texture lands in the most recently
\* created live texture of its kind that has room: every live texture created
\* after the one chosen, and with room for the tile, was asked first and
\* refused; a new texture is created only after every live texture of the
\* kind was asked and refused.
C25_MostRecentFirst ==
    [][(/\ lastOp'.op = "get_or_insert_with" /\ lastOp'.arg # None
        /\ lastOp'.ret.ok /\ lastOp'.ret.val # None)
       => LET list == atlas.storage[texture_kind(lastOp'.id)]
              sz == lastOp'.arg[1].val[1]
              i == lastOp'.ret.val[1].texture_id.index
              refused == lastOp'.before[1]
          IN IF device' = device
             THEN \A j \in Occupied(list) :
                     (/\ TextureAt(list, j).raw.tex > TextureAt(list, i).raw.tex
                      /\ Feasible(TextureAt(list, j), sz) # {})
                         => j \in refused
             ELSE refused = Occupied(list)]_vars

\* C22: before_frame issues one buffer-to-texture copy for each upload queued
\* since the previous flush, in the order queued, and leaves the queue empty:
\* no upload is dropped or issued twice.
C22_FlushCopiesEachUploadOnce ==
    [][lastOp'.op = "before_frame"
       => LET r == lastOp'.ret[1]
          IN /\ ~r.panicked
             /\ Len(r.copies) = Len(atlas.uploads)
             /\ \A i \in DOMAIN r.copies : r.copies[i].upload = atlas.uploads[i]
             /\ atlas'.uploads = << >>]_vars

\* C23: removing a tile from a texture that keeps other live tiles returns
\* the tile's region to the texture's allocator: after the remove no rectangle
\* the allocator counts as handed out covers any of that region.
C23_RemoveFreesRegion ==
    [][(/\ lastOp'.op = "atlas_remove" /\ lastOp'.before # None
        /\ lastOp'.before[1].texture_id.index
              \in Occupied(atlas'.storage[lastOp'.before[1].texture_id.kind]))
       => LET id == lastOp'.before[1].texture_id
              texture == TextureAt(atlas'.storage[id.kind], id.index)
          IN \A i \in DOMAIN texture.allocator :
                 ~Overlap(texture.allocator[i], TileRect(lastOp'.before[1]))]_vars

C27_RowsPaddedToAlignment ==
    lastOp.op = "upload_texture"
        => LET input == lastOp.arg[1]
               bytes == SourceBytes(input.kind, input.size, input.seed)
               unpadded == input.size[1] * (IF input.kind = "Monochrome" THEN 1 ELSE 4)
               height == input.size[2]
               padded == lastOp.ret[1].padded_bytes_per_row
               contents == lastOp.ret[1].contents
           IN /\ padded % COPY_BYTES_PER_ROW_ALIGNMENT = 0
              /\ padded >= unpadded
              /\ padded - COPY_BYTES_PER_ROW_ALIGNMENT < unpadded
              /\ padded # unpadded
                    => /\ Len(contents) = padded * height
                       /\ \A r \in 0..(height - 1) : \A c \in 1..padded :
                              contents[r * padded + c] =
                                  IF c <= unpadded THEN bytes[r * unpadded + c] ELSE 0
              /\ padded = unpadded => contents = bytes

\* a polychrome tile of two rows has been staged with rows padded past the
\* first multiple of the alignment
C27_Witness ==
    /\ lastOp.op = "upload_texture"
    /\ lastOp.arg[1].kind = "Polychrome" /\ lastOp.arg[1].size[2] = 2
    /\ lastOp.ret[1].padded_bytes_per_row = 2 * COPY_BYTES_PER_ROW_ALIGNMENT
    /\ lastOp.ret[1].padded_bytes_per_row # 4 * lastOp.arg[1].size[1]

\* C28: the stores of the two kinds are independent: a cached tile lies in a
\* texture of its key's kind, and a get_or_insert_with or remove of a key of
\* one kind leaves the other kind's texture list, free list and live-key
\* counts as they were.
C28_KindsIndependent ==
    [][/\ \A key \in DOMAIN atlas'.tiles_by_key :
              atlas'.tiles_by_key[key].texture_id.kind = texture_kind(key)
       /\ lastOp'.op \in {"get_or_insert_with", "atlas_remove"}
              => \A kind \in Kinds \ {texture_kind(lastOp'.id)} :
                     atlas'.storage[kind] = atlas.storage[kind]]_vars

\* a monochrome tile has just been inserted in slot 0 of its kind while slot 0
\* of the polychrome store holds the texture of a cached tile
C28_Witness ==
    /\ lastOp.op = "get_or_insert_with" /\ lastOp.arg # None
    /\ texture_kind(lastOp.id) = "Monochrome"
    /\ lastOp.ret.ok /\ lastOp.ret.val # None
    /\ lastOp.ret.val[1].texture_id.index = 0
    /\ 0 \in Occupied(atlas.storage["Polychrome"])
    /\ "p1" \in DOMAIN atlas.tiles_by_key

\* the textures of the double buffers in the registry
RegistryTextures(s) == {s[j].textures[k] : j \in DOMAIN s, k \in 1..2}

\* C29: resize(id, w, h) with dimensions different from the stored ones
\* replaces both textures and both views of the entry by new ones of the new
\* size, sets front to 0 whatever it was, keeps the format, and leaves the
\* entries of all other ids unchanged.
C29_ResizeIsHardReset ==
    [][(/\ lastOp'.op = "resize" /\ lastOp'.before # None
        /\ lastOp'.arg[1] # <<lastOp'.before[1].width, lastOp'.before[1].height>>)
       => LET id == lastOp'.id
              old == lastOp'.before[1]
              w == Max(lastOp'.arg[1][1], 1)
              h == Max(lastOp'.arg[1][2], 1)
          IN /\ DOMAIN surfaces' = DOMAIN surfaces
             /\ surfaces'[id].textures[1] # surfaces'[id].textures[2]
             /\ \A k \in 1..2 :
                    /\ surfaces'[id].textures[k] \notin RegistryTextures(surfaces)
                    /\ surfaces'[id].textures[k].w = w
                    /\ surfaces'[id].textures[k].h = h
                    /\ surfaces'[id].views[k] = surfaces'[id].textures[k]
             /\ surfaces'[id].width = w /\ surfaces'[id].height = h
             /\ surfaces'[id].front = 0
             /\ surfaces'[id].format = old.format
             /\ \A j \in DOMAIN surfaces \ {id} : surfaces'[j] = surfaces[j]]_vars

\* a surface whose front was 1 has just been resized to other dimensions
\* while another surface, of another format, is registered
C29_Witness ==
    /\ lastOp.op = "resize" /\ lastOp.before # None
    /\ lastOp.before[1].front = 1
    /\ lastOp.arg[1] # <<lastOp.before[1].width, lastOp.before[1].height>>
    /\ \E j \in DOMAIN surfaces : surfaces[j].format # lastOp.before[1].format

\* C30: in a draw, clear_present_pending(id) is called for the surface of a
\* primitive exactly when the draw obtained its front index and the view at
\* that index, once per such primitive; the draw leaves every other flag as it
\* was, and a call on a surface removed meanwhile changes nothing.
C30_ClearedWhenSampled ==
    [][comp'.pc # comp.pc
       => /\ comp.pc = "front_index"
                => (comp'.pc = "view_at" <=> comp.cur \in DOMAIN surfaces)
          /\ comp.pc = "view_at"
                => (comp'.pc = "clear" <=> comp.cur \in DOMAIN surfaces)
          /\ comp'.pc = "clear" => comp.pc = "view_at" /\ comp'.cur = comp.cur
          /\ comp.pc = "clear"
                => /\ comp'.pc = "bind"
                   /\ DOMAIN surfaces' = DOMAIN surfaces
                   /\ comp.cur \in DOMAIN surfaces
                         => ~surfaces'[comp.cur].present_pending
          /\ \A id \in DOMAIN surfaces :
                 (comp.pc # "clear" \/ id # comp.cur)
                     => id \in DOMAIN surfaces' /\ surfaces'[id] = surfaces[id]]_vars

\* the draw has just called clear_present_pending for the surface it sampled
\* while the flag of another surface, outside the scene, is set and stays set
C30_Witness ==
    /\ comp.pc = "bind" /\ comp.cur \in DOMAIN surfaces
    /\ ~surfaces[comp.cur].present_pending
    /\ \E id \in DOMAIN surfaces : id # comp.cur /\ surfaces[id].present_pending

\* C32: whenever before_frame may run, each pending upload names a slot that
\* is occupied, and the texture in it has handed out the rectangle the upload
\* is bound for (as the texture its tile was allocated in has).
C32_UploadsAddressTheirTexture ==
    \A i \in DOMAIN atlas.uploads :
        LET up == atlas.uploads[i]
            list == atlas.storage[up.texture_id.kind]
        IN /\ up.texture_id.index \in Occupied(list)
           /\ \E j \in DOMAIN TextureAt(list, up.texture_id.index).allocator :
                  TextureAt(list, up.texture_id.index).allocator[j] =
                      [min |-> up.bounds.origin, size |-> up.bounds.size]

\* C33: for each kind the free list has no duplicate index, its indices are
\* exactly the empty slots of the kind's texture list, and every occupied
\* slot i holds a texture whose id is (kind, i).
C33_FreeListIsEmptySlots ==
    \A kind \in Kinds :
        LET list == atlas.storage[kind]
        IN /\ \A i, j \in DOMAIN list.free_list :
                  i # j => list.free_list[i] # list.free_list[j]
           /\ {list.free_list[i] : i \in DOMAIN list.free_list}
                  = (0..(Len(list.textures) - 1)) \ Occupied(list)
           /\ \A i \in Occupied(list) :
                  TextureAt(list, i).id = [kind |-> kind, index |-> i]

\* after inserts and a remove, a kind has an empty slot, on its free list,
\* below an occupied one
C33_Witness ==
    \E kind \in Kinds :
        LET list == atlas.storage[kind]
        IN /\ list.free_list = <<0>>
           /\ Occupied(list) = {1}
           /\ lastOp.op = "atlas_remove"

\* C34: get_texture_info on the texture id of every cached tile finds a
\* texture, and for as long as a key stays cached with its tile that texture
\* is the same one: its slot is neither emptied nor recycled.
C34_CachedTilesResolve ==
    [][\A key \in DOMAIN atlas'.tiles_by_key :
           LET id == atlas'.tiles_by_key[key].texture_id
           IN /\ get_texture_info(atlas', id) # None
              /\ (/\ key \in DOMAIN atlas.tiles_by_key
                  /\ atlas.tiles_by_key[key] = atlas'.tiles_by_key[key])
                    => get_texture_info(atlas', id) = get_texture_info(atlas, id)]_vars

\* a key has just been removed from a texture in which another key is still
\* cached, while a slot of the kind was emptied before
C34_Witness ==
    /\ lastOp.op = "atlas_remove" /\ lastOp.before # None
    /\ \E key \in DOMAIN atlas.tiles_by_key :
           atlas.tiles_by_key[key].texture_id = lastOp.before[1].texture_id
    /\ atlas.storage[lastOp.before[1].texture_id.kind].free_list # << >>

\* C35: the view the compositor binds for a registered surface is a view of
\* the textures the registry holds for it at that moment, never of textures a
\* resize has discarded.
C35_BindsLiveTextures ==
    [][(/\ comp.pc \in {"bind", "bind_v1"} /\ comp'.pc \in {"front_index", "retain"}
        /\ comp.cur \in DOMAIN surfaces)
          => surface_bind_groups'[comp.cur][comp.idx + 1]
                 \in {surfaces[comp.cur].views[k] : k \in 1..2}]_vars

\* C37: after creation and after every completed Handle.resize, the size the
\* handle reports is the (width, height) the registry stores for its surface,
\* which are the dimensions of the textures behind its views.
C37_HandleSizeIsStoredSize ==
    \A id \in DOMAIN handles \cap DOMAIN surfaces :
        /\ handles[id].size = <<surfaces[id].width, surfaces[id].height>>
        /\ \A k \in 1..2 :
               handles[id].size = <<surfaces[id].views[k].w, surfaces[id].views[k].h>>

\* C38: SurfaceRegistry::resize is idempotent: a call resize(id, w, h) that
\* directly follows the same call replaces nothing: textures, views, front
\* index and pending flag of every entry are as the first call left them, and
\* no texture is created.
C38_ResizeIdempotent ==
    [][(/\ lastOp'.op = "registry_resize" /\ lastOp.op = "registry_resize"
        /\ lastOp'.id = lastOp.id /\ lastOp'.arg = lastOp.arg)
       => (surfaces' = surfaces /\ device' = device)]_vars

\* ------------------------------------------ the winit event loop (platform.rs)
WindowIds == {1, 2}
PhysicalSizes == (0..1) \X (0..1)

\* the event a callback of the main thread is handling
Handling(window_id, physical_size, event) ==
    [NoLoc EXCEPT !.id = window_id, !.w = physical_size[1], !.h = physical_size[2],
                  !.f = event]

\* AppState::set_active_context / clear_active_context
set_active_context == Some("event_loop")
clear_active_context == None

\* with_active_context: Some(f(..)) when the cell holds the pointers, else None
with_active_context(context, result) == IF context = None THEN None ELSE Some(result)

eventVars == <<surfaces, next_id, device, handles, winit, redraw_requested, frames, held,
               comp, surface_bind_groups, returned, episode, swaps, atlas>>

\* history: the callback that returned last, with the event it handled
Returned(callback, ev) ==
    [NoOp EXCEPT !.op = callback, !.id = ev.id, !.arg = Some(<<ev.f, ev.w, ev.h>>)]

\* user_event: set .. (drain the main queue | request a redraw) .. clear
UserEventEnter(event, window_id) ==
    /\ pc[MainThread] = "idle"
    /\ ACTIVE_CONTEXT' = set_active_context
    /\ pc' = [pc EXCEPT ![MainThread] = "user_event"]
    /\ loc' = [loc EXCEPT ![MainThread] = Handling(window_id, <<0, 0>>, event)]
    /\ UNCHANGED <<windows, lastOp, eventVars>>

UserEventReturn ==
    /\ pc[MainThread] = "user_event"
    /\ ACTIVE_CONTEXT' = clear_active_context
    /\ pc' = [pc EXCEPT ![MainThread] = "idle"]
    /\ loc' = [loc EXCEPT ![MainThread] = NoLoc]
    /\ lastOp' = Returned("user_event", loc[MainThread])
    /\ UNCHANGED <<windows, eventVars>>

\* about_to_wait: set .. drain the main queue, request redraws .. clear
AboutToWaitEnter ==
    /\ pc[MainThread] = "idle"
    /\ ACTIVE_CONTEXT' = set_active_context
    /\ pc' = [pc EXCEPT ![MainThread] = "about_to_wait"]
    /\ UNCHANGED <<windows, loc, lastOp, eventVars>>

AboutToWaitReturn ==
    /\ pc[MainThread] = "about_to_wait"
    /\ ACTIVE_CONTEXT' = clear_active_context
    /\ pc' = [pc EXCEPT ![MainThread] = "idle"]
    /\ lastOp' = Returned("about_to_wait", loc[MainThread])
    /\ UNCHANGED <<windows, loc, eventVars>>

\* resumed: set .. on_finish_launching .. clear
ResumedEnter ==
    /\ pc[MainThread] = "idle"
    /\ ACTIVE_CONTEXT' = set_active_context
    /\ pc' = [pc EXCEPT ![MainThread] = "resumed"]
    /\ UNCHANGED <<windows, loc, lastOp, eventVars>>

ResumedReturn ==
    /\ pc[MainThread] = "resumed"
    /\ ACTIVE_CONTEXT' = clear_active_context
    /\ pc' = [pc EXCEPT ![MainThread] = "idle"]
    /\ lastOp' = Returned("resumed", loc[MainThread])
    /\ UNCHANGED <<windows, loc, eventVars>>

\* CrossPlatform::open_window, called by application code that a callback
\* runs (a drained runnable, on_finish_launching, a window callback): the
\* window is created and registered only through the active context
OpenWindow(window_id, inner_size) ==
    /\ pc[MainThread] \in {"user_event", "about_to_wait", "resumed", "window_event_body"}
    /\ window_id \notin DOMAIN windows
    /\ with_active_context(ACTIVE_CONTEXT, TRUE) # None
    /\ windows' = MapInsert(windows, window_id, inner_size)
    /\ UNCHANGED <<ACTIVE_CONTEXT, pc, loc, lastOp, eventVars>>

\* window_event: winit delivers an event for a window id; a Resized event
\* follows the change of the window's inner size
WindowEventEnter(window_id, event, physical_size) ==
    /\ pc[MainThread] = "idle"
    /\ ACTIVE_CONTEXT' = set_active_context
    /\ pc' = [pc EXCEPT ![MainThread] = "window_event"]
    /\ loc' = [loc EXCEPT ![MainThread] =
                  Handling(window_id,
                           IF event = "Resized" THEN physical_size ELSE <<0, 0>>, event)]
    /\ windows' = IF event = "Resized" /\ window_id \in DOMAIN windows
                  THEN [windows EXCEPT ![window_id] = physical_size]
                  ELSE windows
    /\ UNCHANGED <<lastOp, eventVars>>

\* window_event, from the window lookup to the match arm: the three early
\* returns leave the callback at once
WindowEventDispatch ==
    /\ pc[MainThread] = "window_event"
    /\ IF LET ev == loc[MainThread]
          IN \/ ev.id \notin DOMAIN windows
             \/ ev.f = "Resized" /\ (ev.w = 0 \/ ev.h = 0)
             \/ /\ ev.f = "RedrawRequested"
                /\ (windows[ev.id][1] = 0 \/ windows[ev.id][2] = 0)
       THEN /\ pc' = [pc EXCEPT ![MainThread] = "idle"]
            /\ loc' = [loc EXCEPT ![MainThread] = NoLoc]
            /\ lastOp' = Returned("window_event", loc[MainThread])
       ELSE /\ pc' = [pc EXCEPT ![MainThread] = "window_event_body"]
            /\ UNCHANGED <<loc, lastOp>>
    /\ UNCHANGED <<ACTIVE_CONTEXT, windows, eventVars>>

\* window_event, the end of the match arm and of the function: CloseRequested
\* removes the window when on_should_close agrees; clear_active_context
WindowEventReturn ==
    /\ pc[MainThread] = "window_event_body"
    /\ \E should_close \in BOOLEAN :
           windows' = IF loc[MainThread].f = "CloseRequested" /\ should_close
                      THEN remove(windows, loc[MainThread].id)
                      ELSE windows
    /\ ACTIVE_CONTEXT' = clear_active_context
    /\ pc' = [pc EXCEPT ![MainThread] = "idle"]
    /\ loc' = [loc EXCEPT ![MainThread] = NoLoc]
    /\ lastOp' = Returned("window_event", loc[MainThread])
    /\ UNCHANGED eventVars

NextEvents ==
    \/ \E event \in {"WakeUp", "SurfacePresent"}, window_id \in WindowIds :
           UserEventEnter(event, window_id)
    \/ UserEventReturn
    \/ AboutToWaitEnter
    \/ AboutToWaitReturn
    \/ ResumedEnter
    \/ ResumedReturn
    \/ \E window_id \in WindowIds, inner_size \in PhysicalSizes :
           OpenWindow(window_id, inner_size)
    \/ \E window_id \in WindowIds, physical_size \in PhysicalSizes,
          event \in {"Resized", "Moved", "CloseRequested", "RedrawRequested",
                      "MouseInput"} :
           WindowEventEnter(window_id, event, physical_size)
    \/ WindowEventDispatch
    \/ WindowEventReturn

SpecEvents == InitFair /\ [][NextEvents]_vars

\* C39: the thread-local active context is installed only while an event-loop
\* callback is running: whenever the main thread is between two callbacks the
\* context is None, whichever path the last callback returned by.
C39_NoneBetweenCallbacks ==
    pc[MainThread] = "idle" => ACTIVE_CONTEXT = None

\* ----------------------------------------------- the mutexes, step by step
\* the three kinds of std::sync::Mutex: SurfaceRegistry.surfaces, the
\* surface_bind_groups cache of the renderer, the size of one handle
RegistryLock == <<"registry", 0>>
CacheLock == <<"cache", 0>>
SizeLock(id) == <<"size", id>>
NoLock == <<"none", 0>>

\* the threads that take locks; "draw" is the main thread inside draw
Lockers == Threads \cup {"draw"}

\* the guards alive at a position: each registry function locks surfaces for
\* its own body; Handle.resize holds the size guard from its first line to
\* its last; draw holds the cache guard around entry().or_insert_with(..)
GuardsAt(p, id) ==
    CASE p \in {"swap_buffers_locked", "set_present_pending_locked", "get_back_locked",
                "remove_locked", "create_insert_locked"} -> {RegistryLock}
      [] p \in {"resize_sized", "resize_registry", "resize_store"} -> {SizeLock(id)}
      [] p = "resize_registry_locked" -> {SizeLock(id), RegistryLock}
      [] p \in {"bind", "bind_v1"} -> {CacheLock}
      [] OTHER -> {}

\* mutant: present keeps the guard of swap_buffers while it calls
\* set_present_pending
HoldsAt_swap_guard_kept(p, id) ==
    IF p = "set_present_pending" THEN {RegistryLock} ELSE GuardsAt(p, id)

\* the locks held at a position
HoldsAt(p, id) == GuardsAt(p, id)

\* the lock a position is about to take
WantsAt(p, id) ==
    CASE p \in {"swap_buffers", "set_present_pending", "get_back", "remove",
                "create_insert", "resize_registry",
                "front_index", "view_at", "clear", "bind", "bind_v1"} -> RegistryLock
      [] p = "resize" -> SizeLock(id)
      [] p = "retain" -> CacheLock
      [] OTHER -> NoLock

\* the locks a thread, or the main thread inside draw, holds
HoldsOf(l) == IF l = "draw" THEN HoldsAt(comp.pc, 0) ELSE HoldsAt(pc[l], held[l])

\* a cache hit of the compositor binds without the registry
WantsOf(l) ==
    IF l # "draw" THEN WantsAt(pc[l], held[l])
    ELSE IF comp.pc = "bind" /\ comp.cur \in DOMAIN surface_bind_groups
         THEN NoLock
         ELSE WantsAt(comp.pc, 0)

\* Mutex::lock returns only when no guard of the mutex is alive (the mutex is
\* not reentrant)
Free(lock) == \A l \in Lockers : lock \notin HoldsOf(l)

\* a thread enters a function of the handle
Call(t, fn) ==
    /\ pc[t] = "idle" /\ held[t] # 0
    /\ OnCpu(t)
    /\ pc' = [pc EXCEPT ![t] = fn]
    /\ lastOp' = NoOp
    /\ UNCHANGED <<surfaces, next_id, device, handles, winit, ACTIVE_CONTEXT, windows,
                   redraw_requested, frames, held, loc, comp, surface_bind_groups,
                   returned, episode, swaps, atlas>>

\* WgpuSurfaceHandle::resize(width, height) is entered, while the device can
\* still create the textures the call may need
ResizeCall(t, width, height) ==
    /\ pc[t] = "idle" /\ held[t] # 0
    /\ OnCpu(t)
    /\ CanCreateTextures
    /\ pc' = [pc EXCEPT ![t] = "resize"]
    /\ loc' = [loc EXCEPT ![t] = [NoLoc EXCEPT !.id = held[t], !.w = width, !.h = height]]
    /\ lastOp' = NoOp
    /\ UNCHANGED <<surfaces, next_id, device, handles, winit, ACTIVE_CONTEXT, windows,
                   redraw_requested, frames, held, comp, surface_bind_groups, returned,
                   episode, swaps, atlas>>

\* drop of one clone: the Arc count goes down; the last one enters
\* Inner::drop, which calls registry.remove(id)
DropCall(t) ==
    /\ pc[t] = "idle" /\ held[t] # 0
    /\ OnCpu(t)
    /\ IF DropRemoves(handles[held[t]].refs)
       THEN /\ pc' = [pc EXCEPT ![t] = "remove"]
            /\ loc' = [loc EXCEPT ![t] = [NoLoc EXCEPT !.id = held[t]]]
            /\ handles' = MapRemove(handles, held[t])
       ELSE /\ handles' = [handles EXCEPT ![held[t]].refs = @ - 1]
            /\ UNCHANGED <<pc, loc>>
    /\ held' = [held EXCEPT ![t] = 0]
    /\ lastOp' = NoOp
    /\ UNCHANGED <<surfaces, next_id, device, winit, ACTIVE_CONTEXT, windows,
                   redraw_requested, frames, comp, surface_bind_groups, returned, episode,
                   swaps, atlas>>

\* mutex.lock().unwrap() by a thread: it waits until the mutex is free
Acquire(t) ==
    /\ WantsOf(t) # NoLock
    /\ Free(WantsOf(t))
    /\ pc' = [pc EXCEPT ![t] =
                  CASE @ = "swap_buffers" -> "swap_buffers_locked"
                    [] @ = "set_present_pending" -> "set_present_pending_locked"
                    [] @ = "get_back" -> "get_back_locked"
                    [] @ = "remove" -> "remove_locked"
                    [] @ = "create_insert" -> "create_insert_locked"
                    [] @ = "resize" -> "resize_sized"
                    [] @ = "resize_registry" -> "resize_registry_locked"]
    /\ lastOp' = NoOp
    /\ UNCHANGED <<surfaces, next_id, device, handles, winit, ACTIVE_CONTEXT, windows,
                   redraw_requested, frames, held, loc, comp, surface_bind_groups,
                   returned, episode, swaps, atlas>>

\* SurfaceRegistry::create, the insert under the lock
CreateInsertLocked(t) ==
    /\ pc[t] = "create_insert_locked"
    /\ LET id == loc[t].id
           db == create_double_buffer(loc[t].n, loc[t].w, loc[t].h, loc[t].f)
       IN /\ surfaces' = MapInsert(surfaces, id, db)
          /\ returned' = Append(returned, id)
          /\ episode' = [episode EXCEPT ![id] = NoEpisode]
          /\ swaps' = [swaps EXCEPT ![id] = 0]
          /\ handles' = MapInsert(handles, id,
                            [refs |-> 1, size |-> <<loc[t].w, loc[t].h>>])
          /\ held' = [held EXCEPT ![t] = id]
    /\ comp' = Track(comp, surfaces')
    /\ loc' = [loc EXCEPT ![t] = NoLoc]
    /\ pc' = [pc EXCEPT ![t] = "idle"]
    /\ lastOp' = NoOp
    /\ UNCHANGED <<next_id, device, winit, ACTIVE_CONTEXT, windows, redraw_requested,
                   frames, surface_bind_groups, atlas>>

\* present, step 1: the body of registry.swap_buffers, the guard is dropped
SwapBuffersLocked(t) ==
    /\ pc[t] = "swap_buffers_locked"
    /\ DoSwap(held[t])
    /\ pc' = [pc EXCEPT ![t] = "set_present_pending"]
    /\ UNCHANGED <<next_id, device, handles, winit, ACTIVE_CONTEXT, windows,
                   redraw_requested, frames, held, loc, surface_bind_groups, returned,
                   episode, atlas>>

\* present, step 2: the body of registry.set_present_pending
SetPresentPendingLocked(t) ==
    /\ pc[t] = "set_present_pending_locked"
    /\ LET id == held[t]
           ret == set_present_pending_ret(surfaces, id)
       IN /\ surfaces' = set_present_pending(surfaces, id)
          /\ episode' = [episode EXCEPT
                ![id].falses = IF ret THEN @ ELSE @ + 1,
                ![id].first = IF @ = "none" THEN (IF ret THEN "true" ELSE "false") ELSE @]
          /\ pc' = [pc EXCEPT ![t] = IF PresentWakes(ret) THEN "present_wake" ELSE "idle"]
          /\ loc' = [loc EXCEPT ![t].live = PresentWakes(ret)]
    /\ comp' = Track(comp, surfaces')
    /\ lastOp' = NoOp
    /\ UNCHANGED <<next_id, device, handles, winit, ACTIVE_CONTEXT, windows,
                   redraw_requested, frames, held, surface_bind_groups, returned, swaps,
                   atlas>>

\* the body of registry.lock_and_get_back_with_size
GetBackLocked(t) ==
    /\ pc[t] = "get_back_locked"
    /\ pc' = [pc EXCEPT ![t] = "idle"]
    /\ lastOp' = [op |-> "lock_and_get_back_with_size", id |-> held[t],
                  arg |-> None, before |-> Entry(surfaces, held[t]),
                  ret |-> lock_and_get_back_with_size(surfaces, held[t])]
    /\ UNCHANGED <<surfaces, next_id, device, handles, winit, ACTIVE_CONTEXT, windows,
                   redraw_requested, frames, held, loc, comp, surface_bind_groups,
                   returned, episode, swaps, atlas>>

\* Handle.resize under the size guard: return when the size is the stored
\* one, else go on to registry.resize
ResizeCheck(t) ==
    /\ pc[t] = "resize_sized"
    /\ IF handles[held[t]].size = <<loc[t].w, loc[t].h>>
       THEN /\ pc' = [pc EXCEPT ![t] = "idle"]
            /\ loc' = [loc EXCEPT ![t] = NoLoc]
       ELSE /\ pc' = [pc EXCEPT ![t] = "resize_registry"]
            /\ loc' = loc
    /\ lastOp' = NoOp
    /\ UNCHANGED <<surfaces, next_id, device, handles, winit, ACTIVE_CONTEXT, windows,
                   redraw_requested, frames, held, comp, surface_bind_groups, returned,
                   episode, swaps, atlas>>

\* the body of registry.resize, called under the size guard
ResizeLocked(t) ==
    /\ pc[t] = "resize_registry_locked"
    /\ LET id == held[t]
           replaces == resize_replaces(surfaces, id, loc[t].w, loc[t].h)
       IN /\ surfaces' = resize(surfaces, device, id, loc[t].w, loc[t].h)
          /\ device' = IF replaces THEN device + 2 ELSE device
          /\ swaps' = [swaps EXCEPT ![id] = IF replaces THEN 0 ELSE @]
          /\ lastOp' = [op |-> "registry_resize", id |-> id,
                        arg |-> Some(<<loc[t].w, loc[t].h>>),
                        before |-> Entry(surfaces, id), ret |-> None]
    /\ pc' = [pc EXCEPT ![t] = "resize_store"]
    /\ comp' = Track(comp, surfaces')
    /\ UNCHANGED <<next_id, handles, winit, ACTIVE_CONTEXT, windows, redraw_requested,
                   frames, held, loc, surface_bind_groups, returned, episode, atlas>>

\* Handle.resize: *size = (width, height), the size guard is dropped
ResizeStore(t) ==
    /\ pc[t] = "resize_store"
    /\ handles' = [handles EXCEPT ![held[t]].size = <<loc[t].w, loc[t].h>>]
    /\ pc' = [pc EXCEPT ![t] = "idle"]
    /\ loc' = [loc EXCEPT ![t] = NoLoc]
    /\ lastOp' = NoOp
    /\ UNCHANGED <<surfaces, next_id, device, winit, ACTIVE_CONTEXT, windows,
                   redraw_requested, frames, held, comp, surface_bind_groups, returned,
                   episode, swaps, atlas>>

\* Inner::drop: the body of registry.remove
RemoveLocked(t) ==
    /\ pc[t] = "remove_locked"
    /\ surfaces' = remove(surfaces, loc[t].id)
    /\ pc' = [pc EXCEPT ![t] = "idle"]
    /\ loc' = [loc EXCEPT ![t] = NoLoc]
    /\ comp' = Track(comp, surfaces')
    /\ lastOp' = NoOp
    /\ UNCHANGED <<next_id, device, handles, winit, ACTIVE_CONTEXT, windows,
                   redraw_requested, frames, held, surface_bind_groups, returned, episode,
                   swaps, atlas>>

\* the steps of draw that call the registry wait for its mutex
DrawLocked ==
    /\ WantsOf("draw") = RegistryLock => Free(RegistryLock)
    /\ \/ DrawFrontIndex
       \/ DrawViewAt
       \/ DrawClear
       \/ DrawBind
       \/ DrawBindV1
       \/ DrawRetain

\* the steps a thread takes inside a call
ThreadStep(t) ==
    \/ Acquire(t)
    \/ CreateInsertLocked(t)
    \/ SwapBuffersLocked(t)
    \/ SetPresentPendingLocked(t)
    \/ PresentWake(t)
    \/ GetBackLocked(t)
    \/ ResizeCheck(t)
    \/ ResizeLocked(t)
    \/ ResizeStore(t)
    \/ RemoveLocked(t)

\* the main thread creates the surface, lays out (Handle.resize) and draws;
\* the producers present and read the back view; every thread drops
NextLocks ==
    \/ \E sz \in Sizes, f \in Formats : CreateFetch(MainThread, sz[1], sz[2], f)
    \/ \E t \in Producers : Clone(t, MainThread)
    \/ \E t \in Producers, fn \in {"swap_buffers", "get_back"} : Call(t, fn)
    \/ \E sz \in Sizes : ResizeCall(MainThread, sz[1], sz[2])
    \/ \E t \in Threads : DropCall(t)
    \/ \E t \in Threads : ThreadStep(t)
    \/ \E scene \in Scenes : DrawBegin(scene)
    \/ DrawLocked

SpecLocks == InitFair /\ [][NextLocks]_vars

\* C36: no interleaving of present, back-view reads, Handle.resize, handle
\* drops and draw deadlocks. The locks are taken in an acyclic order: the
\* registry lock is requested holding at most the size lock of the handle or
\* the cache lock, the size and cache locks are requested holding nothing,
\* and nothing is requested while the registry lock is held. So every thread
\* inside a call can take a step or waits for a lock whose holder can.
C36_NoDeadlock ==
    LET LockerStep(l) == IF l = "draw" THEN DrawLocked ELSE ThreadStep(l)
    IN /\ \A l \in Lockers :
              /\ WantsOf(l) = RegistryLock
                     => \A lock \in HoldsOf(l) : lock[1] \in {"size", "cache"}
              /\ WantsOf(l) \notin {RegistryLock, NoLock} => HoldsOf(l) = {}
              /\ RegistryLock \in HoldsOf(l) => WantsOf(l) = NoLock
       /\ \A l \in Lockers :
              (IF l = "draw" THEN comp.pc ELSE pc[l]) \notin {"idle", "panicked"} =>
                  \/ ENABLED LockerStep(l)
                  \/ \E u \in Lockers \ {l} :
                         WantsOf(l) \in HoldsOf(u) /\ ENABLED LockerStep(u)

\* a thread holds one lock and waits for the registry lock, which another
\* thread holds
C36_Witness ==
    \E l \in Lockers, u \in Lockers :
        /\ l # u
        /\ HoldsOf(l) # {}
        /\ WantsOf(l) = RegistryLock
        /\ RegistryLock \in HoldsOf(u)

\* ------------------------------------- presents and the draws they wake up
\* WgpuSurfaceHandle::present, step 1, counting the frames published; the
\* producer presents a bounded number of times
PresentSwapFrame(t) ==
    /\ pc[t] = "idle" /\ held[t] # 0
    /\ OnCpu(t)
    /\ LockFree(t)
    /\ frames[held[t]].presented < MaxBuffers + 1
    /\ DoSwap(held[t])
    /\ frames' = [frames EXCEPT ![held[t]].presented = @ + 1]
    /\ pc' = [pc EXCEPT ![t] = "present_set"]
    /\ UNCHANGED <<next_id, device, handles, winit, ACTIVE_CONTEXT, windows,
                   redraw_requested, held, loc, surface_bind_groups, returned, episode,
                   atlas>>

\* WgpuSurfaceHandle::present, step 3, with the wake it sends: request_redraw
\* on the winit window, directly or through CrossEvent::SurfacePresent and
\* user_event; winit keeps one pending redraw per window
PresentRequestRedraw(t) ==
    /\ pc[t] = "present_wake"
    /\ LET id == held[t]
       IN episode' = [episode EXCEPT
              ![id].redraws = IF loc[t].live /\ winit THEN @ + 1 ELSE @,
              ![id].triggers = IF loc[t].live /\ ~winit THEN @ + 1 ELSE @]
    /\ redraw_requested' = TRUE
    /\ pc' = [pc EXCEPT ![t] = "idle"]
    /\ loc' = [loc EXCEPT ![t] = NoLoc]
    /\ lastOp' = NoOp
    /\ UNCHANGED <<surfaces, next_id, device, handles, winit, ACTIVE_CONTEXT, windows,
                   frames, held, comp, surface_bind_groups, returned, swaps, atlas>>

\* window_event(RedrawRequested) -> draw(scene), for a window that is drawn
\* only when a redraw was requested; the scene holds the surface of the
\* element's handle
RedrawRequested ==
    /\ comp.pc = "idle" /\ pc[MainThread] = "idle"
    /\ redraw_requested
    /\ redraw_requested' = FALSE
    /\ comp' = Advance([CompIdle EXCEPT !.scene = {held[MainThread]} \ {0}])
    /\ lastOp' = NoOp
    /\ UNCHANGED <<surfaces, next_id, device, handles, winit, ACTIVE_CONTEXT, windows,
                   frames, pc, held, loc, surface_bind_groups, returned, episode, swaps,
                   atlas>>

\* registry.front_index(surface_id), remembering which frame it names
DrawFrontIndexRead ==
    /\ comp.pc = "front_index"
    /\ LET r == front_index(surfaces, comp.cur)
       IN /\ comp' = IF r = None THEN Advance(comp)
                     ELSE Track([comp EXCEPT !.pc = "view_at", !.idx = r[1]], surfaces)
          /\ frames' = IF r = None THEN frames
                       ELSE [frames EXCEPT ![comp.cur].read = frames[comp.cur].presented]
    /\ lastOp' = NoOp
    /\ UNCHANGED <<surfaces, next_id, device, handles, winit, ACTIVE_CONTEXT, windows,
                   redraw_requested, pc, held, loc, surface_bind_groups, returned,
                   episode, swaps, atlas>>

\* one window with one surface element, one producer, draws on wakes only
NextLatest ==
    \/ \E sz \in Sizes, f \in Formats : CreateFetch(MainThread, sz[1], sz[2], f)
    \/ CreateInsert(MainThread)
    \/ \E t \in Producers : Clone(t, MainThread)
    \/ \E t \in Producers : PresentSwapFrame(t)
    \/ \E t \in Producers : PresentSetPending(t)
    \/ \E t \in Producers : PresentRequestRedraw(t)
    \/ RedrawRequested
    \/ DrawFrontIndexRead
    \/ DrawViewAt
    \/ DrawClear
    \/ DrawBind
    \/ DrawBindV1
    \/ DrawRetain

\* the event loop delivers a requested redraw, draw runs to its end, and a
\* producer inside present() is not starved; the producer is free to stop
\* presenting
SpecLatest ==
    /\ InitFair
    /\ [][NextLatest]_vars
    /\ \A t \in Producers :
           WF_vars(PresentSetPending(t)) /\ WF_vars(PresentRequestRedraw(t))
    /\ WF_vars(RedrawRequested)
    /\ WF_vars(DrawFrontIndexRead)
    /\ WF_vars(DrawViewAt)
    /\ WF_vars(DrawClear)
    /\ WF_vars(DrawBind)
    /\ WF_vars(DrawBindV1)
    /\ WF_vars(DrawRetain)

====
